---- MODULE Spec2Model ----
(***************************************************************************)
(* The program coder of wag: Module.Code (code.go) and GenProgram          *)
(* (internal/gen/codegen/program.go) lay out the text, generate the        *)
(* functions in two phases around the start trigger, seed the function     *)
(* table and patch call sites and table entries afterwards.                *)
(*                                                                         *)
(* Text, read-only data, function map and call-site map are byte           *)
(* sequences; address a is held at index a + 1.  32-bit values are kept as *)
(* signed integers and converted to and from four little-endian bytes.     *)
(***************************************************************************)
EXTENDS Integers, Sequences, FiniteSets, TLC

VARIABLES
    module,         \* the input: functions, start, table, trigger, driver
    code,           \* the coder (code.go:64-92) / gen.Prog
    funcMap,        \* funcMapBuf of Module.Code
    funcIndex,      \* loop index of the generation loops
    initFuncCount,  \* GenProgram's parameter, as adjusted by it
    patchIndex,     \* loop index of the final patch loop
    pending,        \* stores of the current patch loop iteration not yet done
    pc,             \* position in Module.Code / GenProgram
    events,         \* history: trigger closes / events handed to the handler
    atTrigger,      \* history: coder and progress when the trigger fired
    run,            \* 1 for the first compilation, 2 for the repeated one
    firstRun,       \* history: what the first compilation returned
    frame           \* the local variables of genFunction between its steps

vars == <<module, code, funcMap, funcIndex, initFuncCount, patchIndex, pending,
          pc, events, atTrigger, run, firstRun, frame>>

-----------------------------------------------------------------------------
(* Bounds of the model. *)

MaxFuncs == 2       \* defined functions per module
MaxCalls == 1       \* direct calls per function body
MaxLocals == 1      \* locals per function
MaxTable == 1       \* function table entries
NumImports == 6     \* imported functions per module
NumRegs == 2        \* integer registers the allocator hands out

-----------------------------------------------------------------------------
(* Program constants. *)

WordSize == 8               \* gen.WordSize
FuncAlignment == 16         \* FuncAlignment
PaddingByte == 204          \* PaddingByte, 0xcc
roTableAddr == 0            \* roTableAddr
NumTraps == 11              \* traps.NumTraps
MissingFunction == 0        \* traps.MissingFunction / trap.NoFunction
Exit == 1                   \* traps.Exit
CallStackExhausted == 3     \* traps.CallStackExhausted
IndirectCallIndex == 5      \* traps.IndirectCallIndex
IndirectCallSignature == 6  \* traps.IndirectCallSignature
MaxInt32 == 2147483647      \* math.MaxInt32
CommonsAddr == 128          \* rodata.CommonsAddr
TableAddr == 176            \* rodata.TableAddr

nopSequences ==
    << <<144>>,
       <<102, 144>>,
       <<15, 31, 0>> >>

callRel == <<232>>          \* insnAddr32{0xe8}
ret == <<195>>              \* insnConst{0xc3}
pushImm8 == <<106>>         \* insnI{0x6a}
jmpRel8 == <<235>>          \* insnAddr8{0xeb}
jmpRel32 == <<233>>         \* insnAddr32{0xe9}

RegResult == 0              \* RegResult, rax
RegScratch == 2             \* RegScratch, rdx
RegTextBase == 12           \* RegTextBase, r12
Eq == 0                     \* values.Eq

\* availRegs: rcx, rbx, rbp, rsi, rdi, r8, r10, r11
availRegs == <<1, 3, 5, 6, 7, 8, 10, 11>>

-----------------------------------------------------------------------------
(* Little-endian encoding, as encoding/binary and gen.PutInt32 do it. *)

LE32(v) ==
    << v % 256, (v \div 256) % 256, (v \div 65536) % 256,
       (v \div 16777216) % 256 >>

LE64(hi, lo) == LE32(lo) \o LE32(hi)

\* the signed 32-bit value held by the four bytes at address addr
Get32(buf, addr) ==
    LET b4 == buf[addr + 4]
    IN  buf[addr + 1] + 256 * buf[addr + 2] + 65536 * buf[addr + 3]
        + 16777216 * (IF b4 >= 128 THEN b4 - 256 ELSE b4)

Put8(buf, addr, b) == [buf EXCEPT ![addr + 1] = b]

Put32(buf, addr, v) ==
    [i \in 1..Len(buf) |->
        IF i > addr /\ i <= addr + 4 THEN LE32(v)[i - addr] ELSE buf[i]]

Fill(n, b) == [i \in 1..n |-> b]

-----------------------------------------------------------------------------
(* The module under compilation. *)

NumFuncs == Len(module.funcs)
NumCallables == NumImports + NumFuncs
Imports == 1..NumImports
Functions == (NumImports + 1)..NumCallables
Callables == 1..NumCallables

\* Signature.Index of a callable: every callable has its own signature
SigIndex(c) == c - 1

\* len(Signature.Args): signatures alternate between no and one i32 argument
NumArgs(c) == SigIndex(c) % 2

Function(f) == module.funcs[f - NumImports]

\* Function.TableIndexes: the table positions that hold function f
TableIndexes(f) ==
    LET RECURSIVE from(_)
        from(i) ==
            IF i > Len(module.table) THEN <<>>
            ELSE IF module.table[i] = f THEN <<i - 1>> \o from(i + 1)
            ELSE from(i + 1)
    IN  from(1)

-----------------------------------------------------------------------------
(* The text buffer. *)

TextLen(c) == Len(c.text)

Emit(c, bytes) == [c EXCEPT !.text = @ \o bytes]

\* coder.Align
Align(c, alignment, padding) ==
    LET n == (alignment - (TextLen(c) % alignment)) % alignment
    IN  Emit(c, Fill(n, padding))

\* alignFunc of the x86 ISA
alignFunc(c) == Align(c, FuncAlignment, PaddingByte)

-----------------------------------------------------------------------------
(* Call instructions and call sites. *)

insnAddr32size(opcode) == Len(opcode) + 4

insnAddr32put(c, opcode, offset) == Emit(c, opcode \o LE32(offset))

\* insnAddr32.op: a call or jump to a known address; address 0 yields a
\* jump-to-self placeholder
insnAddr32op(c, opcode, addr) ==
    LET size == insnAddr32size(opcode)
        offset == IF addr # 0 THEN addr - (TextLen(c) + size) ELSE -size
    IN  insnAddr32put(c, opcode, offset)

\* insnAddr32.opMissingFunc: the displacement leads to text address 0
opMissingFunc(c, opcode) ==
    LET siteAddr == TextLen(c) + insnAddr32size(opcode)
    IN  insnAddr32put(c, opcode, -siteAddr)

\* the history of the condition flags: epoch counts the emitted instructions
\* that change the flags
Clobber(c) == [c EXCEPT !.flags.epoch = @ + 1]

\* ISA.OpCall: a call site whose callee is unknown is padded so that its
\* displacement is 4-byte aligned
OpCall(c, addr) ==
    IF addr = 0
    THEN LET relPos == (TextLen(c) + insnAddr32size(callRel)) % 4
             padded == IF relPos > 0
                       THEN Emit(c, nopSequences[4 - relPos])
                       ELSE c
         IN  opMissingFunc(Clobber(padded), callRel)
    ELSE insnAddr32op(Clobber(c), callRel, addr)

\* ISA.OpInitCall: no alignment
OpInitCall(c) == opMissingFunc(c, callRel)

\* coder.AddIndirectCallSite / ObjectMapper.PutCallSite: one call map record
PutCallSite(c, retAddr, stackDepth) ==
    [c EXCEPT !.callMap = @ \o LE64(stackDepth, retAddr)]

\* the depth recorded without the return address
AddIndirectCallSiteNoLink(c) ==
    LET c1 == PutCallSite(c, TextLen(c), c.stackOffset)
    IN  [c1 EXCEPT !.siteOffsets = Append(@,
            [ret |-> TextLen(c), offset |-> c.stackOffset])]

\* a step's value under a name for the steps that follow it; the test has the
\* value computed before them
With(v, Op(_)) == IF v \in {} THEN v ELSE Op(v)

\* siteOffsets is the history of the virtual stack offset at each record
AddIndirectCallSite(c) ==
    LET c1 == PutCallSite(c, TextLen(c), c.stackOffset + WordSize)
    IN  [c1 EXCEPT !.siteOffsets = Append(@,
            [ret |-> TextLen(c), offset |-> c.stackOffset])]

\* links.L.AddSite
AddSite(c, callee, retAddr) ==
    [c EXCEPT !.links[callee].Sites = Append(@, retAddr)]

\* coder.AddCallSite; callSites is the history of all direct call sites
AddCallSite(c, callee) ==
    With(AddIndirectCallSite(c), LAMBDA c1 :
        [(IF c1.links[callee].Address = 0
          THEN AddSite(c1, callee, TextLen(c1))
          ELSE c1)
            EXCEPT !.callSites = Append(@,
                [ret |-> TextLen(c), callee |-> callee])])

\* mach.OpCall(code, link) of code.go: the call and its call site
OpCallLink(c, callee) ==
    AddCallSite(OpCall(c, c.links[callee].Address), callee)

\* coder.OpTrapCall / opTrapCall: a call to a trap entry
OpTrapCall(c, id) ==
    LET c1 == [c EXCEPT !.trapTrampolines[id] = TextLen(c)]
        c2 == insnAddr32op(c1, callRel, c1.trapEntries[id])
    IN  AddIndirectCallSite(c2)

\* mach.OpCall(code, &code.trapEntries[id]) of code.go
OpCallTrap(c, id) == AddIndirectCallSite(OpCall(c, c.trapEntries[id]))

-----------------------------------------------------------------------------
(* The function coder.  Machine instructions whose encodings are not part   *)
(* of the sources are held in the text as one symbolic element each:        *)
(* <<mnemonic, register, storage of the other operand, its value>>.         *)

Void == "Void"
I32 == "I32"
I64 == "I64"

\* values.Operand
Operand(storage, index, reg, value) ==
    [Storage |-> storage, Index |-> index, Reg |-> reg, Value |-> value]

NoOperand == Operand("Nowhere", 0, 0, 0)
ImmOperand(value) == Operand("Imm", 0, 0, value)
VarOperand(index) == Operand("Var", index, 0, 0)
VarMemOperand(index, offset) == Operand("VarMem", index, 0, offset)
VarRegOperand(index, reg) == Operand("VarReg", index, reg, 0)
TempRegOperand(reg) == Operand("TempReg", 0, reg, 0)
StackOperand == Operand("Stack", 0, 0, 0)
ConditionFlagsOperand(cond) == Operand("ConditionFlags", 0, 0, cond)

\* Storage.IsReg
IsReg(x) == x.Storage \in {"VarReg", "TempReg"}

\* varState, its init and reset
VarState(cache, dirty) == [cache |-> cache, refCount |-> 0, dirty |-> dirty]
varInit(v, cache, dirty) == [v EXCEPT !.cache = cache, !.dirty = dirty]
varReset(v) == varInit(v, NoOperand, FALSE)

\* a panic ends the compilation; the first one is kept
Ok(c) == c.panic = ""
Panic(c, msg) == IF Ok(c) THEN [c EXCEPT !.panic = msg] ELSE c

NumParams(c) == NumArgs(c.function)
NumLocals(c) == Function(c.function).locals

\* the integer registers the allocator hands out: rcx, rbx, rbp, ...
AvailRegs == {availRegs[i] : i \in 1..NumRegs}

\* regAllocator.alloc: the lowest free register
TryAllocReg(c) ==
    LET free == AvailRegs \ c.regsInt
        reg == CHOOSE r \in free : \A q \in free : r <= q
    IN  IF free = {} \/ ~Ok(c)
        THEN [c |-> c, reg |-> RegResult, ok |-> FALSE]
        ELSE [c |-> [c EXCEPT !.regsInt = @ \cup {reg}],
              reg |-> reg, ok |-> TRUE]

\* regAllocator.free: a register that is not handed out by the allocator (the
\* result register) is ignored
FreeReg(c, reg) ==
    IF reg \notin AvailRegs THEN c
    ELSE IF reg \notin c.regsInt THEN Panic(c, "register already free")
    ELSE IF Ok(c) THEN [c EXCEPT !.regsInt = @ \ {reg}]
    ELSE c

\* regAllocator.allocated
RegAllocated(c, reg) == reg \in c.regsInt

\* regAllocator.postCheck
postCheck(c, regs) ==
    IF regs # {} THEN Panic(c, "registers not freed at end of function") ELSE c

\* coder.Consumed
Consumed(c, x) ==
    CASE x.Storage = "TempReg" -> FreeReg(c, x.Reg)
      [] x.Storage = "Stack" -> [c EXCEPT !.stackOffset = @ - WordSize]
      [] OTHER -> c

\* coder.effectiveVarStackOffset
effectiveVarStackOffset(c, index) ==
    IF index < NumParams(c)
    THEN c.stackOffset + WordSize + (NumParams(c) - index - 1) * WordSize
    ELSE c.stackOffset - (index - NumParams(c) + 1) * WordSize

\* coder.effectiveOperand; a negative stack offset is a panic
effectiveOperand(c, x) ==
    IF x.Storage = "Var" /\ Ok(c)
    THEN IF c.vars[x.Index + 1].cache.Storage = "Nowhere"
         THEN LET offset == effectiveVarStackOffset(c, x.Index)
              IN  [c |-> IF offset < 0
                         THEN Panic(c, "effective stack offset is negative")
                         ELSE c,
                   x |-> VarMemOperand(x.Index, offset)]
         ELSE [c |-> c, x |-> c.vars[x.Index + 1].cache]
    ELSE [c |-> c, x |-> x]

\* coder.virtualOperand
virtualOperand(x) ==
    IF x.Storage \in {"VarMem", "VarReg"} THEN VarOperand(x.Index) ELSE x

\* the instructions that change the condition flags of the CPU
FlagInsns ==
    {"add", "sub", "or", "xor", "mul", "div_s", "div_u", "cmp", "cmp32",
     "test", "test32", "shr64", "neg", "inc", "dec"}

\* made is the epoch of the last comparison for a ConditionFlags operand, uses
\* are the consumptions of such operands
FlagsMade(c, live) ==
    [c EXCEPT !.flags.made = c.flags.epoch,
              !.flags.uses = Append(@, [by |-> "made", made |-> c.flags.epoch,
                                        epoch |-> c.flags.epoch,
                                        live |-> live])]
FlagsUsed(c, by) ==
    [c EXCEPT !.flags.uses = Append(@, [by |-> by, made |-> c.flags.made,
                                        epoch |-> c.flags.epoch,
                                        live |-> 0])]

\* one symbolic instruction
Insn(c, mnemonic, reg, storage, value) ==
    IF Ok(c)
    THEN Emit(IF mnemonic \in FlagInsns THEN Clobber(c) ELSE c,
              << <<mnemonic, reg, storage, value>> >>)
    ELSE c

\* mach.OpAbort
OpAbort(c) == Insn(c, "int3", 0, "", 0)

\* opMove of the ISA: the operand is consumed
OpMove(c, t, targetReg, x, preserveFlags) ==
    LET s == x.Storage
    IN  With(CASE s = "Imm" ->
                    IF x.Value = 0 /\ ~preserveFlags
                    THEN Insn(c, "xor", targetReg, "reg", targetReg)
                    ELSE Insn(c, "mov", targetReg, "imm", x.Value)
                [] s = "VarMem" -> Insn(c, "mov", targetReg, "stack", x.Value)
                [] s = "VarReg" ->
                    IF x.Reg # targetReg
                    THEN Insn(c, "mov", targetReg, "reg", x.Reg) ELSE c
                [] s = "TempReg" ->
                    IF x.Reg # targetReg
                    THEN Insn(c, "mov", targetReg, "reg", x.Reg)
                    ELSE IF targetReg = RegResult THEN c
                    ELSE Panic(c, "moving temporary integer register to itself")
                [] s = "Stack" -> Insn(c, "pop", targetReg, "", 0)
                [] s = "ConditionFlags" ->
                    Insn(Insn(FlagsUsed(c, "setcc"),
                              "setcc", targetReg, "cond", x.Value),
                         "movzx8", targetReg, "reg", targetReg)
                [] OTHER -> Panic(c, "OpMove: operand"),
             LAMBDA c1 : IF Ok(c1) THEN Consumed(c1, x) ELSE c1)


\* coder.incrementStackOffset
incrementStackOffset(c) ==
    LET n == c.stackOffset + WordSize
    IN  [c EXCEPT !.stackOffset = n,
                  !.maxStackOffset = IF n > @ THEN n ELSE @]

\* the stack pointer moved the other way
OpSubImmFromStackPtr(c, offset) ==
    IF offset # 0 THEN Emit(Clobber(c), <<72, 131, 236, offset % 256>>) ELSE c

\* ISA.OpAddImmToStackPtr: add with an 8-bit immediate to rsp
OpAddImmToStackPtr(c, offset) ==
    IF offset # 0 THEN Emit(Clobber(c), <<72, 131, 196, offset % 256>>) ELSE c

\* coder.opAddImmToStackPtr
opAddImmToStackPtr(c, offset) ==
    OpAddImmToStackPtr([c EXCEPT !.stackOffset = @ - offset], offset)

\* coder.Discard
Discard(c, x) ==
    CASE x.Storage = "TempReg" -> FreeReg(c, x.Reg)
      [] x.Storage = "Stack" -> opAddImmToStackPtr(c, WordSize)
      [] OTHER -> c

\* ISA.OpPush of an immediate that fits 8 bits
OpPushImm(c, value) == Emit(c, pushImm8 \o <<value % 256>>)

\* ISA.OpPush
OpPush(c, t, x) ==
    IF IsReg(x)
    THEN IF x.Storage = "TempReg"
         THEN FreeReg(Insn(c, "push", x.Reg, "", 0), x.Reg)
         ELSE Insn(c, "push", x.Reg, "", 0)
    ELSE IF x.Storage = "Imm" THEN OpPushImm(c, x.Value)
    ELSE Insn(OpMove(c, t, RegScratch, x, TRUE), "push", RegScratch, "", 0)

\* mach.OpPushIntReg
OpPushIntReg(c, reg) == Insn(c, "push", reg, "", 0)

\* ISA.OpStoreStack
OpStoreStack(c, t, offset, x) ==
    IF IsReg(x)
    THEN IF x.Storage = "TempReg"
         THEN FreeReg(Insn(c, "store", x.Reg, "stack", offset), x.Reg)
         ELSE Insn(c, "store", x.Reg, "stack", offset)
    ELSE Insn(OpMove(c, t, RegScratch, x, TRUE),
              "store", RegScratch, "stack", offset)

\* opBorrowMaybeScratchReg of the ISA
opBorrowMaybeScratchReg(c, t, x, preserveFlags) ==
    IF IsReg(x)
    THEN [c |-> c, reg |-> x.Reg, own |-> x.Storage = "TempReg"]
    ELSE [c |-> OpMove(c, t, RegScratch, x, preserveFlags),
          reg |-> RegScratch, own |-> FALSE]

\* opMaybeResultReg of the ISA
opMaybeResultReg(c, t, x, preserveFlags) ==
    IF x.Storage = "TempReg" THEN [c |-> c, reg |-> x.Reg]
    ELSE With(TryAllocReg(c), LAMBDA r :
            [c |-> IF x.Storage # "Nowhere"
                   THEN OpMove(r.c, t, r.reg, x, preserveFlags)
                   ELSE r.c,
             reg |-> r.reg])

\* opNegInt, opInplaceInt: the operand's own or a newly allocated register, or
\* the result register, takes the result
opInplaceInt(c, insn, t, x) ==
    With(opMaybeResultReg(c, t, x, FALSE), LAMBDA r :
        [c |-> Insn(r.c, insn, r.reg, "", 0),
         result |-> TempRegOperand(r.reg), deadend |-> FALSE])

\* binaryIntAL: the left operand's own or a newly allocated register, or the
\* result register, takes the result
binaryIntAL(c, opName, t, a, b) ==
    IF opName = "sub" /\ a.Storage = "Imm" /\ a.Value = 0
    THEN opInplaceInt(c, "neg", t, b)
    ELSE IF b.Storage = "Imm" /\ b.Value = 1 /\ opName \in {"add", "sub"}
    THEN opInplaceInt(c, IF opName = "add" THEN "inc" ELSE "dec", t, a)
    ELSE With(opMaybeResultReg(c, t, a, FALSE), LAMBDA r :
        [c |-> IF b.Storage = "Imm"
               THEN Insn(r.c, opName, r.reg, "imm", b.Value)
               ELSE With(opBorrowMaybeScratchReg(r.c, t, b, FALSE), LAMBDA s :
                        IF s.own
                        THEN FreeReg(Insn(s.c, opName, r.reg, "reg", s.reg),
                                     s.reg)
                        ELSE Insn(s.c, opName, r.reg, "reg", s.reg)),
         result |-> TempRegOperand(r.reg), deadend |-> FALSE])

\* binaryIntCmp: the comparison leaves its result in the condition flags
binaryIntCmp(c, cond, t, a, b) ==
    With(OpMove(c, t, RegResult, a, FALSE), LAMBDA c1 :
        [c |-> IF b.Storage = "Imm"
               THEN Insn(c1, "cmp", RegResult, "imm", b.Value)
               ELSE IF IsReg(b)
               THEN With(Insn(c1, "cmp", RegResult, "reg", b.Reg), LAMBDA c3 :
                        IF b.Storage = "TempReg" THEN FreeReg(c3, b.Reg)
                        ELSE c3)
               ELSE Insn(OpMove(c1, t, RegScratch, b, FALSE),
                         "cmp", RegResult, "reg", RegScratch),
         result |-> ConditionFlagsOperand(cond), deadend |-> FALSE])

\* binaryIntDivmul: the result register takes the result
binaryIntDivmul(c, opName, t, a, b) ==
    LET inReg == IsReg(b) /\ b.Reg # RegResult
        bReg == IF inReg THEN b.Reg ELSE RegScratch
        c1 == IF IsReg(b)
              THEN IF b.Reg = RegResult
                   THEN Insn(c, "mov", RegScratch, "reg", RegResult) ELSE c
              ELSE OpMove(c, t, RegScratch, b, FALSE)
    IN  [c |-> With(Insn(OpMove(c1, t, RegResult, a, FALSE),
                         opName, RegResult, "reg", bReg), LAMBDA c3 :
                    IF b.Storage = "TempReg" THEN FreeReg(c3, bReg) ELSE c3),
         result |-> TempRegOperand(RegResult), deadend |-> FALSE]

\* the live operands that are in the condition flags
FlagsLive(c) ==
    Cardinality({i \in 1..Len(c.liveOperands) :
                    c.liveOperands[i].ref.Storage = "ConditionFlags"})

\* mach.BinaryOp
BinaryOp(c, opName, t, a, b) ==
    CASE opName \in {"add", "sub", "or", "xor"} ->
            binaryIntAL(c, opName, t, a, b)
      [] opName = "eq" ->
            With(binaryIntCmp(c, Eq, t, a, b), LAMBDA r :
                [r EXCEPT !.c = FlagsMade(r.c, FlagsLive(c))])
      [] opName \in {"mul", "div_s", "div_u"} ->
            binaryIntDivmul(c, opName, t, a, b)
      [] OTHER -> [c |-> Panic(c, opName), result |-> NoOperand,
                   deadend |-> FALSE]

\* ISA.OpSelect
OpSelect(c, t, a, b, condOperand) ==
    LET s == condOperand.Storage
        c1 == CASE s = "VarMem" ->
                    Insn(c, "cmp", 0, "stack", condOperand.Value)
                [] s \in {"VarReg", "TempReg"} ->
                    Insn(c, "test", condOperand.Reg, "reg", condOperand.Reg)
                [] s = "Stack" ->
                    Insn(OpAddImmToStackPtr(c, WordSize),
                         "cmp", 0, "stack", -WordSize)
                [] s = "ConditionFlags" -> c
                [] OTHER -> Panic(c, "OpSelect: condition operand")
        used(d) == IF s = "ConditionFlags" THEN FlagsUsed(d, "cmov") ELSE d
    IN  IF s = "Imm"
        THEN IF condOperand.Value # 0
             THEN [c |-> Consumed(c, b), result |-> a]
             ELSE [c |-> Consumed(c, a), result |-> b]
        ELSE With(opMaybeResultReg(c1, t, b, TRUE), LAMBDA r :
                [c |-> Consumed(
                    IF a.Storage = "VarMem"
                    THEN Insn(used(r.c), "cmov", r.reg, "stack", a.Value)
                    ELSE With(opBorrowMaybeScratchReg(r.c, t, a, TRUE),
                              LAMBDA q :
                            IF q.own
                            THEN FreeReg(Insn(used(q.c), "cmov", r.reg,
                                              "reg", q.reg), q.reg)
                            ELSE Insn(used(q.c), "cmov", r.reg, "reg",
                                      q.reg)),
                    condOperand),
                 result |-> TempRegOperand(r.reg)])

\* ISA.OpTrapIfStackExhausted: lea with a 32-bit displacement to be patched,
\* cmp, jge over the trap call, trap call
OpTrapIfStackExhausted(c) ==
    With(Emit(c, <<72, 141, 148, 36>> \o LE32(-2147483647 - 1)), LAMBDA c1 :
        [code |-> OpTrapCall(Emit(c1, <<76, 57, 234>> \o <<125, 5>>),
                             CallStackExhausted),
         stackCheckAddr |-> TextLen(c1)])

\* mach.OpFunctionPrologue: alignment and the stack check
OpFunctionPrologue(c) ==
    With(alignFunc(c), LAMBDA c1 :
        With(OpTrapIfStackExhausted(c1), LAMBDA r :
            [code |-> r.code, invokeAddr |-> TextLen(c1),
             stackUsageAddr |-> r.stackCheckAddr]))

\* ISA.OpReturn
OpReturn(c) == Emit(c, ret)

\* ISA.UpdateStackCheck
UpdateStackDisp(c, addr, disp) ==
    [c EXCEPT !.text = Put32(@, addr - 4, -disp)]

\* mach.DeleteCode: the range becomes padding
DeleteCode(c, addrBegin, addrEnd) ==
    [c EXCEPT !.text = [i \in 1..Len(@) |->
        IF i > addrBegin /\ i <= addrEnd THEN PaddingByte ELSE @[i]]]

\* mach.DisableCode: the range becomes a nop sequence
DisableCode(c, addrBegin, addrEnd) ==
    [c EXCEPT !.text = [i \in 1..Len(@) |->
        IF i > addrBegin /\ i <= addrEnd
        THEN nopSequences[addrEnd - addrBegin][i - addrBegin]
        ELSE @[i]]]

\* coder.opMove
opMove(c, t, target, x, preserveFlags) ==
    IF t = Void /\ x.Storage # "Nowhere"
    THEN Panic(c, "opMove: operand of void type")
    ELSE IF t # Void /\ x.Storage = "Nowhere"
    THEN Panic(c, "opMove: no operand")
    ELSE LET e == effectiveOperand(c, x)
         IN  OpMove(e.c, t, target, e.x, preserveFlags)

\* coder.opInitLocalsUntil: the locals not pushed yet are pushed, the last
\* one with the given value
RECURSIVE opInitLocalsUntil(_, _, _)
opInitLocalsUntil(c, lastLocal, lastValue) ==
    LET local == c.pushedLocals
        index == NumParams(c) + local
        v == c.vars[index + 1]
    IN  IF ~Ok(c) \/ local > lastLocal \/ local >= NumLocals(c) THEN c
        ELSE IF v.cache.Storage = "Nowhere"
        THEN Panic(c, "variable without cached value during locals initialization")
        ELSE IF ~v.dirty
        THEN Panic(c, "variable not dirty during locals initialization")
        ELSE With(IF local = lastLocal THEN lastValue ELSE v.cache, LAMBDA x :
                opInitLocalsUntil(
                    [incrementStackOffset(
                         IF x.Storage = "Imm" /\ x.Value = 0
                         THEN OpPush(c, "I64", ImmOperand(0))
                         ELSE OpPush(c, I32, x))
                       EXCEPT !.vars[index + 1].dirty = FALSE,
                              !.pushedLocals = @ + 1,
                              !.locals = Append(@,
                                    [local |-> local,
                                     stackOffset |-> c.stackOffset])],
                    lastLocal, lastValue))

\* coder.opInitLocals
opInitLocals(c) == opInitLocalsUntil(c, NumLocals(c), NoOperand)

\* coder.opStoreVar
opStoreVar(c, t, index, x) ==
    With(effectiveOperand(c, x), LAMBDA e :
        LET local == index - NumParams(c)
            offset == effectiveVarStackOffset(e.c, index)
        IN  IF ~Ok(e.c) THEN e.c
            ELSE IF local >= e.c.pushedLocals
            THEN opInitLocalsUntil(e.c, local, e.x)
            ELSE IF offset < 0
            THEN Panic(e.c, "effective stack offset is negative")
            ELSE OpStoreStack(e.c, t, offset, e.x))

\* the variable's register is given up: its value is stored if dirty
storeAndReset(c, t, index) ==
    With(IF c.vars[index + 1].dirty
         THEN opStoreVar(c, t, index, VarOperand(index)) ELSE c, LAMBDA c1 :
        IF Ok(c1) THEN [c1 EXCEPT !.vars[index + 1] = varReset(@)] ELSE c1)

\* the live operands that are the variable, by their storage
VarRefs(c, index) ==
    {i \in 1..Len(c.liveOperands) :
        /\ c.liveOperands[i].ref.Storage = "Var"
        /\ c.liveOperands[i].ref.Index = index}

\* every variable's count is the number of the live operands that are it
RefCountsAgree(c) ==
    \A index \in 0..(Len(c.vars) - 1) :
        c.vars[index + 1].refCount = Cardinality(VarRefs(c, index))

\* refs is the history of the counts: the first operation that left a count
\* that is not the number of the live operands, with the counts and the list
Counted(c, op) ==
    IF c.refs = <<>> /\ ~RefCountsAgree(c)
    THEN [c EXCEPT !.refs = <<[after |-> op,
                               refCounts |-> [i \in 1..Len(c.vars) |->
                                                c.vars[i].refCount],
                               liveOperands |-> c.liveOperands]>>]
    ELSE c

CountedIn(r, op) == [r EXCEPT !.c = Counted(@, op)]

decRefCount(c, index) ==
    IF ~Ok(c) THEN c
    ELSE IF c.vars[index + 1].refCount - 1 < 0
    THEN Panic([c EXCEPT !.vars[index + 1].refCount = @ - 1],
               "variable reference count is negative")
    ELSE [c EXCEPT !.vars[index + 1].refCount = @ - 1]

\* the register of the first unused variable is handed out and the variable
\* keeps it as its cache
opTryStealUnusedVarRegKept(c, t) ==
    LET unused == {i \in 0..(Len(c.vars) - 1) :
                      /\ c.vars[i + 1].refCount = 0
                      /\ c.vars[i + 1].cache.Storage = "VarReg"}
        i == CHOOSE j \in unused : \A k \in unused : j <= k
    IN  IF unused = {} \/ ~Ok(c)
        THEN [c |-> c, reg |-> RegResult, ok |-> FALSE]
        ELSE [c |-> c, reg |-> c.vars[i + 1].cache.Reg, ok |-> TRUE]

\* coder.opTryStealUnusedVarReg
opTryStealUnusedVarReg(c, t) ==
    LET unused == {i \in 0..(Len(c.vars) - 1) :
                      /\ c.vars[i + 1].refCount = 0
                      /\ c.vars[i + 1].cache.Storage = "VarReg"}
        i == CHOOSE j \in unused : \A k \in unused : j <= k
    IN  IF unused = {} \/ ~Ok(c)
        THEN [c |-> c, reg |-> RegResult, ok |-> FALSE]
        ELSE [c |-> storeAndReset(c, t, i),
              reg |-> c.vars[i + 1].cache.Reg, ok |-> TRUE]

\* the live operands after place i of the list that are on the stack
StackedAfter(c, i) ==
    {j \in (i + 1)..Len(c.liveOperands) :
        c.liveOperands[j].ref.Storage = "Stack"}

\* order is the history of the pushes: the first push of a live operand that
\* has an operand on the stack after it in the list, with the list before it
Ordered(c, i) ==
    IF Ok(c) /\ c.order = <<>> /\ StackedAfter(c, i) # {}
    THEN [c EXCEPT !.order = <<[pushed |-> i,
                                liveOperands |-> c.liveOperands]>>]
    ELSE c

\* the live operand at position i of the list goes to the stack
pushLive(c, i) ==
    With(effectiveOperand(opInitLocals(Ordered(c, i)), c.liveOperands[i].ref),
         LAMBDA e :
        With(incrementStackOffset(OpPush(e.c, c.liveOperands[i].typ, e.x)),
             LAMBDA c2 :
            IF Ok(c2) THEN [c2 EXCEPT !.liveOperands[i].ref = StackOperand]
            ELSE c2))

\* the loop of coder.opStealReg over the mutable live operands
RECURSIVE opStealRegFrom(_, _, _, _)
opStealRegFrom(c, t, i, n) ==
    LET ref == c.liveOperands[i].ref
        index == ref.Index
        v == c.vars[index + 1]
        found == v.cache.Storage = "VarReg" /\ v.refCount = 1
    IN  IF ~Ok(c) THEN [c |-> c, reg |-> RegResult]
        ELSE IF i > n
        THEN [c |-> Panic(c, "no registers to steal"), reg |-> RegResult]
        ELSE CASE ref.Storage = "Imm" ->
                    opStealRegFrom([c EXCEPT !.immutableLiveOperands = @ + 1],
                                   t, i + 1, n)
               [] ref.Storage = "Var" ->
                    With(decRefCount(IF found THEN storeAndReset(c, t, index)
                                     ELSE pushLive(c, i), index), LAMBDA cv :
                        IF ~Ok(cv) THEN [c |-> cv, reg |-> RegResult]
                        ELSE IF found
                        THEN [c |-> [cv EXCEPT !.immutableLiveOperands = @ + 1],
                              reg |-> v.cache.Reg]
                        ELSE opStealRegFrom(
                                [cv EXCEPT !.immutableLiveOperands = @ + 1],
                                t, i + 1, n))
               [] ref.Storage = "TempReg" ->
                    With(incrementStackOffset(
                             OpPushIntReg(opInitLocals(Ordered(c, i)), ref.Reg)),
                         LAMBDA c2 :
                        [c |-> IF Ok(c2)
                               THEN [c2 EXCEPT
                                       !.liveOperands[i].ref = StackOperand,
                                       !.immutableLiveOperands = @ + 1]
                               ELSE c2,
                         reg |-> ref.Reg])
               [] OTHER -> [c |-> Panic(c, "opStealReg: live operand"),
                            reg |-> RegResult]

\* coder.opStealReg
opStealReg(c, t) ==
    CountedIn(
        With(opTryStealUnusedVarReg(c, t), LAMBDA u :
            IF u.ok \/ ~Ok(u.c) THEN [c |-> u.c, reg |-> u.reg]
            ELSE opStealRegFrom(u.c, t, u.c.immutableLiveOperands + 1,
                                Len(u.c.liveOperands))),
        "opStealReg")

\* the loop of coder.opTryStealVarReg over the mutable live operands
RECURSIVE opTryStealVarRegFrom(_, _, _, _)
opTryStealVarRegFrom(c, t, i, n) ==
    LET ref == c.liveOperands[i].ref
        index == ref.Index
        v == c.vars[index + 1]
        nope == [c |-> c, reg |-> RegResult, ok |-> FALSE]
    IN  IF ~Ok(c) \/ i > n THEN nope
        ELSE CASE ref.Storage = "Imm" ->
                    opTryStealVarRegFrom(
                        [c EXCEPT !.immutableLiveOperands = @ + 1], t, i + 1, n)
               [] ref.Storage = "Var" ->
                    IF v.refCount > 1 \/ v.cache.Storage # "VarReg" THEN nope
                    ELSE With(decRefCount(storeAndReset(c, t, index), index),
                              LAMBDA cv :
                            IF ~Ok(cv)
                            THEN [c |-> cv, reg |-> RegResult, ok |-> FALSE]
                            ELSE [c |-> [cv EXCEPT
                                           !.immutableLiveOperands = @ + 1],
                                  reg |-> v.cache.Reg, ok |-> TRUE])
               [] ref.Storage = "TempReg" -> nope
               [] OTHER -> [c |-> Panic(c, "opTryStealVarReg: live operand"),
                            reg |-> RegResult, ok |-> FALSE]

\* coder.opTryStealVarReg
opTryStealVarReg(c, t) ==
    CountedIn(
        With(opTryStealUnusedVarReg(c, t), LAMBDA u :
            IF u.ok \/ ~Ok(u.c) THEN u
            ELSE opTryStealVarRegFrom(u.c, t, u.c.immutableLiveOperands + 1,
                                      Len(u.c.liveOperands))),
        "opTryStealVarReg")

\* coder.opAllocReg, without operands to save
opAllocReg(c, t) ==
    With(TryAllocReg(c), LAMBDA r :
        IF r.ok \/ ~Ok(c) THEN [c |-> r.c, reg |-> r.reg]
        ELSE opStealReg(c, t))

\* coder.opTryAllocVarReg
opTryAllocVarReg(c, t) ==
    With(TryAllocReg(c), LAMBDA r :
        IF r.ok \/ ~Ok(c) THEN r ELSE opTryStealVarReg(c, t))

\* coder.opPreloadOperand
opPreloadOperand(c, t, x) ==
    With(effectiveOperand(c, x), LAMBDA e :
        IF e.x.Storage = "VarMem" /\ Ok(e.c)
        THEN With(opTryAllocVarReg(e.c, t), LAMBDA r :
                IF ~r.ok THEN [c |-> r.c, x |-> e.x]
                ELSE With(opMove(r.c, t, r.reg, e.x, FALSE), LAMBDA c1 :
                        IF Ok(c1)
                        THEN [c |-> [c1 EXCEPT !.vars[e.x.Index + 1] =
                                        varInit(@, VarRegOperand(e.x.Index,
                                                                 r.reg),
                                                FALSE)],
                              x |-> VarRegOperand(e.x.Index, r.reg)]
                        ELSE [c |-> c1, x |-> e.x]))
        ELSE e)

\* coder.opMaterializeOperand
opMaterializeOperand(c, t, x) ==
    With(opPreloadOperand(c, t, x), LAMBDA p :
        IF p.x.Storage \in {"Stack", "ConditionFlags"} /\ Ok(p.c)
        THEN With(opAllocReg(p.c, t), LAMBDA r :
                [c |-> opMove(r.c, t, r.reg, p.x, FALSE),
                 x |-> TempRegOperand(r.reg)])
        ELSE p)

\* coder.opPushLiveOperand: pos is the operand's place in the list, 0 when it
\* is not entered
opPushLiveOperand(c, t, x) ==
    LET entered(c1, y) ==
            [c |-> [c1 EXCEPT !.liveOperands = Append(@, [typ |-> t, ref |-> y])],
             x |-> y, pos |-> Len(c1.liveOperands) + 1]
    IN  CountedIn(
        IF ~Ok(c) THEN [c |-> c, x |-> x, pos |-> 0]
        ELSE CASE x.Storage \in {"Nowhere", "Imm"} ->
                    [c |-> c, x |-> x, pos |-> 0]
               [] x.Storage = "Var" ->
                    entered([c EXCEPT !.vars[x.Index + 1].refCount = @ + 1], x)
               [] x.Storage = "TempReg" /\ RegAllocated(c, x.Reg) ->
                    entered(c, x)
               [] x.Storage \in {"TempReg", "ConditionFlags"} ->
                    With(opAllocReg(c, t), LAMBDA r :
                        With(opMove(r.c, t, r.reg, x, FALSE), LAMBDA c2 :
                            IF Ok(c2) THEN entered(c2, TempRegOperand(r.reg))
                            ELSE [c |-> c2, x |-> x, pos |-> 0]))
               [] OTHER ->
                    [c |-> Panic(c, "opPushLiveOperand: operand"),
                     x |-> x, pos |-> 0],
        "opPushLiveOperand")

\* the operand as its owner sees it: the list holds the reference
liveValue(c, x, pos) ==
    IF pos > 0 /\ pos <= Len(c.liveOperands) THEN c.liveOperands[pos].ref
    ELSE x

\* coder.popLiveOperand
popLiveOperand(c, x, pos) ==
    LET y == liveValue(c, x, pos)
    IN  Counted(
        IF ~Ok(c) THEN c
        ELSE CASE y.Storage \in {"Nowhere", "Imm"} -> c
               [] y.Storage \in {"Var", "TempReg", "Stack"} ->
                    With(IF y.Storage = "Var" THEN decRefCount(c, y.Index)
                         ELSE c, LAMBDA c1 :
                        LET i == Len(c1.liveOperands) - 1
                        IN  IF ~Ok(c1) THEN c1
                            ELSE IF pos # i + 1
                            THEN Panic(c1, "popLiveOperand argument does not match topmost item of liveOperands")
                            ELSE [c1 EXCEPT
                                    !.liveOperands = SubSeq(@, 1, i),
                                    !.immutableLiveOperands =
                                        IF @ > i THEN i ELSE @])
               [] OTHER -> Panic(c, "popLiveOperand: operand"),
        "popLiveOperand")

\* the loop at the start of coder.expr: the operands to save are pushed
RECURSIVE pushSave(_, _, _)
pushSave(c, save, i) ==
    IF i > Len(save) \/ ~Ok(c) THEN [c |-> c, save |-> save]
    ELSE With(opPushLiveOperand(c, save[i].typ, save[i].x), LAMBDA p :
            pushSave(p.c, [save EXCEPT ![i].x = p.x, ![i].pos = p.pos], i + 1))

\* the deferred calls of coder.expr: the operands are popped, last one first
RECURSIVE popSave(_, _, _)
popSave(c, save, i) ==
    IF i < 1 \/ ~Ok(c) THEN [c |-> c, save |-> save]
    ELSE LET y == liveValue(c, save[i].x, save[i].pos)
         IN  popSave(popLiveOperand(c, save[i].x, save[i].pos),
                     [save EXCEPT ![i].x = y, ![i].pos = 0], i - 1)

LiveOperand(t, x) == [typ |-> t, x |-> x, pos |-> 0]

\* coder.opSaveTempRegOperands
RECURSIVE opSaveTempRegOperandsFrom(_, _, _, _)
opSaveTempRegOperandsFrom(c, i, n, pushed) ==
    IF ~Ok(c) THEN c
    ELSE IF i > n THEN [c EXCEPT !.immutableLiveOperands = Len(c.liveOperands)]
    ELSE LET s == c.liveOperands[i].ref.Storage
         IN  IF s = "TempReg"
             THEN opSaveTempRegOperandsFrom(pushLive(c, i), i + 1, n, TRUE)
             ELSE IF s = "Stack" /\ pushed
             THEN Panic(c, "previously pushed operand found after newly pushed operand")
             ELSE opSaveTempRegOperandsFrom(c, i + 1, n, pushed)

opSaveTempRegOperands(c) ==
    opSaveTempRegOperandsFrom(c, c.immutableLiveOperands + 1,
                              Len(c.liveOperands), FALSE)

\* coder.opStoreRegVars
RECURSIVE opStoreRegVarsFrom(_, _, _)
opStoreRegVarsFrom(c, forget, i) ==
    IF ~Ok(c) \/ i >= Len(c.vars) THEN c
    ELSE LET v == c.vars[i + 1]
             stored(s) == IF Ok(s) THEN [s EXCEPT !.vars[i + 1].dirty = FALSE]
                          ELSE s
             forgotten(f) == IF Ok(f) THEN [f EXCEPT !.vars[i + 1] = varReset(@)]
                             ELSE f
         IN  With(IF v.dirty THEN stored(opStoreVar(c, I32, i, VarOperand(i)))
                  ELSE c, LAMBDA c1 :
                opStoreRegVarsFrom(
                    IF forget /\ Ok(c1)
                    THEN forgotten(IF v.cache.Storage = "VarReg"
                                   THEN FreeReg(c1, v.cache.Reg) ELSE c1)
                    ELSE c1,
                    forget, i + 1))

opStoreRegVars(c, forget) == opStoreRegVarsFrom(c, forget, 0)

\* links.L of a branch target
Label == [Address |-> 0, Sites |-> <<>>, live |-> FALSE]

\* L.Live
Live(l) == l.live \/ Len(l.Sites) > 0

\* coder.pushTarget
pushTarget(c, valueType, functionEnd) ==
    LET offset == IF c.pushedLocals < NumLocals(c)
                  THEN NumLocals(c) * WordSize
                  ELSE c.stackOffset
    IN  [c EXCEPT !.targetStack = Append(@,
            [label |-> Label, expectType |-> valueType,
             stackOffset |-> offset, functionEnd |-> functionEnd,
             targeted |-> FALSE, lowered |-> 0, deadAt |-> 0,
             children |-> 0])]

\* coder.popTarget; the label stays with the one that made it
popTarget(c) ==
    LET n == Len(c.targetStack)
    IN  [c |-> [c EXCEPT !.targetStack = SubSeq(@, 1, n - 1)],
         live |-> Live(c.targetStack[n].label),
         label |-> c.targetStack[n].label]

\* coder.findTarget, by index: the place of the target in the stack, or 0
findTarget(c, i) ==
    IF i >= 0 /\ i < Len(c.targetStack) THEN Len(c.targetStack) - i ELSE 0

\* jmpRel.op: the short form when the address is known and near
OpBranch(c, addr) ==
    LET offset == addr - (TextLen(c) + 2)
    IN  IF addr # 0 /\ offset >= -128 /\ offset < 128
        THEN Emit(c, jmpRel8 \o <<offset % 256>>)
        ELSE insnAddr32op(c, jmpRel32, addr)

\* the branch that records its site on a label that has its address
opBranchAlways(c, pos) ==
    LET l == c.targetStack[pos].label
    IN  With(OpBranch(c, l.Address), LAMBDA c1 :
            [c1 EXCEPT !.targetStack[pos].label.Sites =
                            Append(@, TextLen(c1))])

\* coder.opBranch and branchSites, for the target at the given place
opBranch(c, pos) ==
    LET l == c.targetStack[pos].label
    IN  With(OpBranch(c, l.Address), LAMBDA c1 :
            IF l.Address = 0
            THEN [c1 EXCEPT !.targetStack[pos].label.Sites =
                                Append(@, TextLen(c1))]
            ELSE c1)

\* coder.opLabel; the label's address is the length of the text afterwards
opLabel(c) == opStoreRegVars(opSaveTempRegOperands(c), TRUE)

\* ISA.UpdateBranches
\* binds is the history of the labels bound: the address of the label, the
\* sites recorded on it and what the text holds at each of them afterwards
Bound(c, sites, labelAddr) ==
    [c EXCEPT !.binds = Append(@,
        [address |-> labelAddr, sites |-> sites,
         held |-> [k \in 1..Len(sites) |-> Get32(c.text, sites[k] - 4)]])]

RECURSIVE UpdateBranches(_, _, _, _)
UpdateBranches(c, sites, labelAddr, i) ==
    IF i > Len(sites) THEN Bound(c, sites, labelAddr)
    ELSE UpdateBranches(
            [c EXCEPT !.text = Put32(@, sites[i] - 4, labelAddr - sites[i])],
            sites, labelAddr, i + 1)

\* the live operand at place i of the list refers to the variable
refersTo(c, i, index) ==
    /\ c.liveOperands[i].ref.Storage = "Var"
    /\ c.liveOperands[i].ref.Index = index

\* exprSetLocal, the label push: the references to the variable go to the
\* stack, first one first
RECURSIVE setLocalPush(_, _, _, _)
setLocalPush(c, index, i, n) ==
    IF ~Ok(c) \/ i > n THEN c
    ELSE IF refersTo(c, i, index)
    THEN With(decRefCount(pushLive(c, i), index), LAMBDA c1 :
            IF Ok(c1) /\ c1.vars[index + 1].refCount = 0 THEN c1
            ELSE setLocalPush(c1, index, i + 1, n))
    ELSE setLocalPush(c, index, i + 1, n)

\* exprSetLocal, the first loop: the references to the variable get registers
\* of their own, last one first, while there are registers left
RECURSIVE setLocalRegs(_, _, _)
setLocalRegs(c, index, i) ==
    IF ~Ok(c) \/ i <= c.immutableLiveOperands THEN c
    ELSE IF refersTo(c, i, index)
    THEN With(TryAllocReg(c), LAMBDA r :
            IF ~r.ok
            THEN setLocalPush(opInitLocals(c), index,
                              c.immutableLiveOperands + 1,
                              Len(c.liveOperands))
            ELSE With(opMove(r.c, I32, r.reg, c.liveOperands[i].ref, TRUE),
                      LAMBDA c1 :
                    With(decRefCount(
                             IF Ok(c1)
                             THEN [c1 EXCEPT !.liveOperands[i].ref =
                                                 TempRegOperand(r.reg)]
                             ELSE c1, index), LAMBDA c2 :
                        IF Ok(c2) /\ c2.vars[index + 1].refCount = 0 THEN c2
                        ELSE setLocalRegs(c2, index, i - 1))))
    ELSE setLocalRegs(c, index, i - 1)

\* exprSetLocal 1710-1761: the live references to the variable's old value
setLocalRefs(c, index) ==
    LET v == c.vars[index + 1]
    IN  IF v.refCount > 0
        THEN With(IF v.cache.Storage \in {"Nowhere", "VarReg"}
                  THEN setLocalRegs(c, index, Len(c.liveOperands))
                  ELSE c, LAMBDA c1 :
                IF Ok(c1) /\ c1.vars[index + 1].refCount # 0
                THEN Panic(c1, "could not find all variable references")
                ELSE c1)
        ELSE c

\* exprSetLocal 1763-1836: the new value becomes the variable's cache
setLocalValue(c, index, result, oldCache) ==
    LET s == result.Storage
        keep == s = "TempReg" /\ RegAllocated(c, result.Reg)
        reuse == ~keep /\ oldCache.Storage = "VarReg"
        old == IF s # "Imm" /\ reuse THEN NoOperand ELSE oldCache
        cached(m, x, dirty) ==
            IF Ok(m) THEN [m EXCEPT !.vars[index + 1] = varInit(@, x, dirty)]
            ELSE m
    IN  With(CASE s = "Imm" ->
                    [c EXCEPT !.vars[index + 1] = varInit(@, result, TRUE)]
               [] s \in {"Var", "Stack", "ConditionFlags", "TempReg"} ->
                    With(IF keep
                         THEN [c |-> c, reg |-> result.Reg, ok |-> TRUE]
                         ELSE IF reuse
                         THEN [c |-> c, reg |-> oldCache.Reg, ok |-> TRUE]
                         ELSE opTryAllocVarReg(c, I32), LAMBDA r :
                        IF r.ok
                        THEN cached(IF keep THEN r.c
                                    ELSE opMove(r.c, I32, r.reg, result, FALSE),
                                    VarRegOperand(index, r.reg), TRUE)
                        ELSE cached(opStoreVar(r.c, I32, index, result),
                                    NoOperand, FALSE))
               [] OTHER -> Panic(c, "set_local: result operand"),
             LAMBDA c2 :
            IF ~Ok(c2) THEN c2
            ELSE CASE old.Storage \in {"Nowhere", "Imm"} -> c2
                   [] old.Storage = "VarReg" -> FreeReg(c2, old.Reg)
                   [] OTHER -> Panic(c2, "set_local: old cache"))

\* Callable.Result
Result(callable) ==
    IF callable \in Functions THEN Function(callable).result ELSE Void

\* the operation names of the binary operators, by expression name
opNames ==
    [name \in {"i32.add", "i32.sub", "i32.or", "i32.xor", "i32.mul",
               "i32.div_s", "i32.div_u", "i32.eq"} |->
        CASE name = "i32.add" -> "add"
          [] name = "i32.sub" -> "sub"
          [] name = "i32.or" -> "or"
          [] name = "i32.xor" -> "xor"
          [] name = "i32.mul" -> "mul"
          [] name = "i32.div_s" -> "div_s"
          [] name = "i32.div_u" -> "div_u"
          [] name = "i32.eq" -> "eq"]

\* what an expression coder hands back
Done(c, result, deadend) == [c |-> c, result |-> result, deadend |-> deadend]

\* coder.exprConst
exprConst(x) == ImmOperand(x[2])

\* coder.exprGetLocal
exprGetLocal(c, x, getType) ==
    LET index == x[2]
        cache == c.vars[index + 1].cache
    IN  IF index < 0 \/ index >= Len(c.vars)
        THEN Done(Panic(c, "get_local: variable not found"), NoOperand, FALSE)
        ELSE IF I32 # getType
        THEN Done(Panic(c, "get_local: type"), NoOperand, FALSE)
        ELSE CASE cache.Storage \in {"Nowhere", "VarReg"} ->
                    Done(c, VarOperand(index), FALSE)
               [] cache.Storage = "Imm" -> Done(c, cache, FALSE)
               [] OTHER -> Done(Panic(c, "get_local: cache"), NoOperand, FALSE)

\* exprBinaryOp 647-704: both operands are at hand; the operands are swapped
\* where the code swaps them.  folds is the history of these calls: the
\* operands, the result, whether mach.BinaryOp was called and the bytes and
\* instructions emitted
binaryOpFrom(c, opName, t, a0, b0, commute) ==
    LET swap == /\ commute
                /\ a0.Storage = "Imm"
                /\ b0.Storage # "Imm"
                /\ opName \in {"add", "and", "or", "xor"}
        a == IF swap THEN b0 ELSE a0
        b == IF swap THEN a0 ELSE b0
        imm == b.Storage = "Imm"
        folded == imm /\ \/ opName \in {"add", "or", "sub", "xor", "mul"}
                            /\ b.Value = 0
                         \/ opName \in {"mul", "div_s", "div_u"} /\ b.Value = 1
                         \/ opName = "div_s" /\ b.Value = -1
    IN  With(IF imm /\ opName \in {"add", "or", "sub", "xor"} /\ b.Value = 0
             THEN Done(c, a, FALSE)
             ELSE IF imm /\ opName = "mul" /\ b.Value = 0
             THEN Done(Discard(c, a), ImmOperand(0), FALSE)
             ELSE IF imm /\ opName = "mul" /\ b.Value = 1
             THEN Done(c, a, FALSE)
             ELSE IF imm /\ opName = "div_s" /\ b.Value \in {-1, 1}
             THEN Done(Discard(c, a), ImmOperand(0), FALSE)
             ELSE IF imm /\ opName = "div_u" /\ b.Value = 1
             THEN Done(Discard(c, a), ImmOperand(0), FALSE)
             ELSE With(opMaterializeOperand(c, t, a), LAMBDA ma :
                With(opPreloadOperand(ma.c, t, b), LAMBDA pb :
                    With(BinaryOp(pb.c, opName, t, ma.x, pb.x), LAMBDA r :
                        IF r.deadend THEN Done(OpAbort(r.c), r.result, TRUE)
                        ELSE Done(r.c, virtualOperand(r.result), FALSE)))),
             LAMBDA r :
        Done([r.c EXCEPT !.folds = Append(@,
                [op |-> opName, a |-> a0, b |-> b0, result |-> r.result,
                 called |-> ~folded,
                 emitted |-> SubSeq(r.c.text, TextLen(c) + 1,
                                    TextLen(r.c))])],
             r.result, r.deadend))

\* the operands are never swapped
binaryOpNoSwap(c, opName, t, a0, b0) ==
    binaryOpFrom(c, opName, t, a0, b0, FALSE)

binaryOp(c, opName, t, a0, b0) == binaryOpFrom(c, opName, t, a0, b0, TRUE)

RECURSIVE expr(_, _, _, _, _)
RECURSIVE exprBinaryOp(_, _, _, _)
RECURSIVE exprChildren(_, _, _, _, _, _)
RECURSIVE exprBlock(_, _, _, _, _)
RECURSIVE exprBr(_, _)
RECURSIVE opPushCallArgs(_, _, _, _)
RECURSIVE exprCall(_, _, _)
RECURSIVE exprDrop(_, _, _)
RECURSIVE exprReturn(_, _)
RECURSIVE exprSelect(_, _, _)
RECURSIVE exprSetLocal(_, _)
RECURSIVE exprIf(_, _, _, _)
RECURSIVE exprCallIndirect(_, _, _)
RECURSIVE exprChildrenOn(_, _, _, _, _, _)

\* coder.exprBinaryOp
exprBinaryOp(c, opName, t, x) ==
    With(expr(c, x[2], t, FALSE, <<>>), LAMBDA ra :
        IF ~Ok(ra.c) THEN Done(ra.c, NoOperand, FALSE)
        ELSE IF ra.deadend THEN Done(OpAbort(ra.c), ra.result, TRUE)
        ELSE With(expr(ra.c, x[3], t, FALSE, <<LiveOperand(t, ra.result)>>),
                  LAMBDA rb :
                IF ~Ok(rb.c) THEN Done(rb.c, NoOperand, FALSE)
                ELSE IF rb.deadend
                THEN Done(OpAbort(Discard(rb.c, rb.save[1].x)), rb.result, TRUE)
                ELSE binaryOp(rb.c, opName, t, rb.save[1].x, rb.result)))

\* the history of a target: the children of its block lowered so far, the
\* child that dead-ended, and whether a branch to it was coded
Lowered(c, n) ==
    IF Ok(c)
    THEN [c EXCEPT !.targetStack[Len(c.targetStack)].lowered = @ + 1,
                   !.targetStack[Len(c.targetStack)].children = n]
    ELSE c

DeadAt(c, i) ==
    IF Ok(c) THEN [c EXCEPT !.targetStack[Len(c.targetStack)].deadAt = i] ELSE c

RECURSIVE Targeted(_, _, _)
Targeted(c, places, i) ==
    IF i > Len(places) \/ ~Ok(c) THEN c
    ELSE Targeted([c EXCEPT !.targetStack[places[i]].targeted = TRUE],
                  places, i + 1)

\* ends is the history of the blocks and ifs: what the target was at its end,
\* the parts whose end was reached without a branch (the block, the arms of
\* the if, "none" for the else arm there is not), whether the label was bound
\* and what the parent was told
Ended(d, name, target, fell, bound) ==
    IF Ok(d.c)
    THEN [d EXCEPT !.c.ends = Append(@,
            [name |-> name, lowered |-> target.lowered,
             children |-> target.children,
             deadAt |-> target.deadAt, targeted |-> target.targeted,
             sites |-> Len(target.label.Sites), live |-> Live(target.label),
             functionEnd |-> target.functionEnd, fell |-> fell,
             bound |-> bound, deadend |-> d.deadend,
             offset |-> target.stackOffset,
             stackOffset |-> d.c.stackOffset])]
    ELSE d

\* the loop that does not end at a dead end
exprChildrenOn(c, children, i, expectType, finalSibling, last) ==
    LET finalChild == i = Len(children)
        t == IF finalChild THEN expectType ELSE Void
    IN  IF i > Len(children) \/ ~Ok(c) THEN Done(c, last, FALSE)
        ELSE With(expr(Lowered(c, Len(children)), children[i], t,
                       finalSibling /\ finalChild, <<>>), LAMBDA r :
                IF r.deadend /\ finalChild
                THEN Done(OpAbort(DeadAt(r.c, i)), r.result, TRUE)
                ELSE exprChildrenOn(IF r.deadend THEN DeadAt(r.c, i) ELSE r.c,
                                    children, i + 1, expectType,
                                    finalSibling, r.result))

\* the loop over the children of a block: the final child yields the value
exprChildren(c, children, i, expectType, finalSibling, last) ==
    LET finalChild == i = Len(children)
        t == IF finalChild THEN expectType ELSE Void
    IN  IF i > Len(children) \/ ~Ok(c) THEN Done(c, last, FALSE)
        ELSE With(expr(Lowered(c, Len(children)), children[i], t, finalSibling /\ finalChild,
                       <<>>), LAMBDA r :
                IF r.deadend THEN Done(OpAbort(DeadAt(r.c, i)), r.result, TRUE)
                ELSE exprChildren(r.c, children, i + 1, expectType,
                                  finalSibling, r.result))

\* the targets of the branch tables that are the target at the given place of
\* the stack get the address of its label
BindTables(c, pos, addr) ==
    [c EXCEPT !.branchTables =
        [k \in 1..Len(@) |->
            [@[k] EXCEPT !.targets =
                [i \in 1..Len(@) |->
                    IF @[i].pos = pos /\ @[i].addr = 0
                    THEN [@[i] EXCEPT !.addr = addr] ELSE @[i]]]]]

\* coder.exprBlock; before is the label of a loop, if there is one
exprBlock(c, x, expectType, finalSibling, before) ==
    LET valueType == x[2]
        after == pushTarget(c, expectType, finalSibling)
        pushed == IF before = <<>> THEN after
                  ELSE With(pushTarget(after, Void, FALSE), LAMBDA c0 :
                        [c0 EXCEPT !.targetStack[Len(c0.targetStack)].label =
                                        before[1]])
    IN  IF expectType # Void /\ valueType # expectType
        THEN Done(Panic(c, "block: signature"), NoOperand, FALSE)
        ELSE With(exprChildren(pushed, x[3], 1, expectType, finalSibling,
                               NoOperand), LAMBDA r :
            IF ~Ok(r.c) THEN Done(r.c, NoOperand, FALSE)
            ELSE With(IF before = <<>> THEN r.c ELSE popTarget(r.c).c,
                      LAMBDA ra :
                 With(popTarget(ra), LAMBDA p :
                LET top == r.c.targetStack[Len(r.c.targetStack)]
                    target == [ra.targetStack[Len(ra.targetStack)] EXCEPT
                                 !.lowered = top.lowered,
                                 !.deadAt = top.deadAt,
                                 !.children = top.children]
                    name == "block"
                    loop(d) == IF before = <<>> \/ ~Ok(d.c) THEN d
                               ELSE [d EXCEPT !.c = UpdateBranches(
                                        @, top.label.Sites,
                                        top.label.Address, 1)]
                IN  IF p.live
                    THEN With(opLabel(
                                  IF ~r.deadend /\ expectType # Void
                                  THEN opMove(p.c, expectType, RegResult,
                                              r.result, FALSE)
                                  ELSE p.c), LAMBDA c3 :
                            loop(Ended(Done(IF Ok(c3)
                                       THEN UpdateBranches(
                                              BindTables(c3,
                                                         Len(ra.targetStack),
                                                         TextLen(c3)),
                                              p.label.Sites, TextLen(c3), 1)
                                       ELSE c3,
                                       IF expectType # Void
                                       THEN TempRegOperand(RegResult)
                                       ELSE r.result,
                                       FALSE),
                                  name, target,
                                  IF r.deadend THEN {} ELSE {"block"}, TRUE)))
                    ELSE IF r.deadend
                    THEN loop(Ended(Done(OpAbort(p.c), r.result, TRUE),
                                    name, target, {}, FALSE))
                    ELSE loop(Ended(Done(p.c, r.result, FALSE),
                                    name, target, {"block"}, FALSE)))))

\* coder.exprLoop: the label before the children is bound at once
exprLoop(c, x, t, final) ==
    With(opLabel(c), LAMBDA c1 :
        IF ~Ok(c1) THEN Done(c1, NoOperand, FALSE)
        ELSE exprBlock(c1, x, t, final,
                       <<[Label EXCEPT !.Address = TextLen(c1)]>>))

\* the history of the branches: where the code of the branch begins, the
\* stack offset of the coder at that place and the target
Branched(c, name, target) ==
    [c EXCEPT !.branches = Append(@,
        [name |-> name, at |-> TextLen(c), stackOffset |-> c.stackOffset,
         target |-> target.stackOffset, functionEnd |-> target.functionEnd])]

\* jcc of the conditions: je and jne, the forms with 8 and with 32 bits
jcc8(cond) == IF cond = Eq THEN <<116>> ELSE <<117>>
jcc32(cond) == IF cond = Eq THEN <<15, 132>> ELSE <<15, 133>>
Ne == 1                     \* values.Ne

\* insnAddr.op of jcc
jccOp(c, cond, addr) ==
    LET offset == addr - (TextLen(c) + 2)
    IN  IF addr # 0 /\ offset >= -128 /\ offset < 128
        THEN Emit(c, jcc8(cond) \o <<offset % 256>>)
        ELSE insnAddr32op(c, jcc32(cond), addr)

\* ISA.OpBranchIf, for the integer conditions and yes
OpBranchIf(c, x, addr) ==
    IF x.Storage = "ConditionFlags"
    THEN jccOp(FlagsUsed(c, "jcc"), x.Value, addr)
    ELSE With(opBorrowMaybeScratchReg(c, I32, x, FALSE), LAMBDA r :
            With(jccOp(Insn(r.c, "test", r.reg, "reg", r.reg), Ne, addr),
                 LAMBDA c1 : IF r.own THEN FreeReg(c1, r.reg) ELSE c1))

\* coder.opBranchIf and branchSites, for the target at the given place
opBranchIf(c, x, pos) ==
    LET l == c.targetStack[pos].label
    IN  With(effectiveOperand(c, x), LAMBDA e :
        With(OpBranchIf(e.c, e.x, l.Address), LAMBDA c1 :
            IF Ok(c1) /\ l.Address = 0
            THEN [c1 EXCEPT !.targetStack[pos].label.Sites =
                                Append(@, TextLen(c1))]
            ELSE c1))

\* exprBr, the branch of br_if
brIf(c, condOperand, pos) ==
    LET target == c.targetStack[pos]
    IN  With(opStoreRegVars(opInitLocals(opSaveTempRegOperands(c)), FALSE),
             LAMBDA c2 :
            IF ~Ok(c2) THEN c2
            ELSE LET delta == c2.stackOffset - target.stackOffset
                 IN  OpAddImmToStackPtr(
                        opBranchIf(
                            OpAddImmToStackPtr(
                                Branched(c2, "br_if", target), delta),
                            condOperand, pos),
                        -delta))

\* exprBr, the branch of br
br(c, pos) ==
    LET target == c.targetStack[pos]
    IN  IF target.functionEnd
        THEN OpReturn(OpAddImmToStackPtr(Branched(c, "br", target),
                                         c.stackOffset))
        ELSE With(opStoreRegVars(opInitLocals(opSaveTempRegOperands(c)),
                                 TRUE), LAMBDA c2 :
                IF ~Ok(c2) THEN c2
                ELSE opBranch(
                        OpAddImmToStackPtr(
                            Branched(c2, "br", target),
                            c2.stackOffset - target.stackOffset),
                        pos))

\* the comparison without the move that replaces a negative index
opCompareBoundsSigned(c, indexReg, upperBound) ==
    Insn(Insn(Insn(c, "mov32", RegScratch, "imm", upperBound),
              "test32", indexReg, "reg", indexReg),
         "cmp32", RegScratch, "reg", indexReg)

\* opCompareBounds: a negative index is replaced by the upper bound
opCompareBounds(c, indexReg, upperBound) ==
    Insn(Insn(Insn(Insn(c, "mov32", RegScratch, "imm", upperBound),
                   "test32", indexReg, "reg", indexReg),
              "cmovl32", indexReg, "reg", RegScratch),
         "cmp32", RegScratch, "reg", indexReg)

\* dataArena.alloc: the address is aligned, the arena grows by zeros
roAlloc(c, size, alignment) ==
    LET addr == ((Len(c.roData) + alignment - 1) \div alignment) * alignment
    IN  [c |-> [c EXCEPT !.roData = @ \o Fill(addr + size - Len(@), 0)],
         addr |-> addr]

\* jle of insnAddr.op
jleOp(c, addr) ==
    LET offset == addr - (TextLen(c) + 2)
    IN  IF addr # 0 /\ offset >= -128 /\ offset < 128
        THEN Emit(c, <<126, offset % 256>>)
        ELSE insnAddr32op(c, <<15, 142>>, addr)

\* coder.opBranchIfOutOfBounds with ISA.OpBranchIfOutOfBounds
opBranchIfOutOfBounds(c, indexReg, upperBound, pos) ==
    LET l == c.targetStack[pos].label
    IN  With(jleOp(opCompareBounds(c, indexReg, upperBound), l.Address),
             LAMBDA c1 :
            IF Ok(c1) /\ l.Address = 0
            THEN [c1 EXCEPT !.targetStack[pos].label.Sites =
                                Append(@, TextLen(c1))]
            ELSE c1)

\* ISA.OpLoadROIntIndex32ScaleDisp
OpLoadROIntIndex32ScaleDisp(c, t, reg, regZeroExt, scale, addr) ==
    Insn(IF regZeroExt THEN c ELSE Insn(c, "mov32", reg, "reg", reg),
         IF scale = 2 THEN "movro32" ELSE "movro64", reg, "rodata", addr)

\* ISA.OpMoveReg, ISA.OpShiftRightLogical32Bits and ISA.OpAddToStackPtr: the
\* high half of the entry, zero-extended, is added to the stack pointer
opAddHighToStackPtr(c, reg2, reg) ==
    IF reg2 = reg THEN Panic(c, "target and source registers are the same")
    ELSE Insn(Insn(Insn(c, "mov64", reg2, "reg", reg),
                   "shr64", reg2, "imm", 32),
              "add64", 4, "reg", reg2)

\* ISA.OpBranchIndirect32
OpBranchIndirect32(c, reg, regZeroExt) ==
    Insn(Insn(IF regZeroExt THEN c ELSE Insn(c, "mov32", reg, "reg", reg),
              "add64", reg, "reg", RegTextBase),
         "jmp", reg, "reg", reg)

\* the code that an operation has added to the text
Emitted(c, c1) == SubSeq(c1.text, TextLen(c) + 1, TextLen(c1))

\* exprBr, the branch of br_table: the register of the index, code.go:1098-1119
brTableIndex(c, condOperand) ==
    LET v == c.vars[condOperand.Index + 1]
    IN  IF condOperand.Storage = "Var" /\ v.cache.Storage = "VarReg"
        THEN [c |-> c, reg |-> v.cache.Reg, zeroExt |-> FALSE, free |-> FALSE]
        ELSE IF condOperand.Storage = "TempReg"
        THEN [c |-> c, reg |-> condOperand.Reg, zeroExt |-> FALSE,
              free |-> TRUE]
        ELSE With(opAllocReg(c, I32), LAMBDA r :
                [c |-> opMove(r.c, I32, r.reg, condOperand, FALSE),
                 reg |-> r.reg, zeroExt |-> TRUE, free |-> TRUE])

\* exprBr, the branch of br_table, code.go:1065-1160
brTable(c, condOperand, tablePos, pos) ==
    LET targets == [i \in 1..Len(tablePos) |-> c.targetStack[tablePos[i]]]
        common == \A i \in 1..Len(targets) :
                        targets[i].stackOffset = targets[1].stackOffset
        commonStackOffset == IF common THEN targets[1].stackOffset ELSE -1
        tableType == IF commonStackOffset >= 0 THEN I32 ELSE I64
        tableScale == IF commonStackOffset >= 0 THEN 2 ELSE 3
        tableSize == Len(targets) * (IF tableScale = 2 THEN 4 ELSE 8)
        a == roAlloc(c, tableSize, IF tableScale = 2 THEN 4 ELSE 8)
        defaultTarget == c.targetStack[pos]
    IN  With(opSaveTempRegOperands(a.c), LAMBDA c1 :
        With(IF commonStackOffset < 0 THEN opAllocReg(c1, I32)
             ELSE [c |-> c1, reg |-> RegResult], LAMBDA r2 :
        With(brTableIndex(r2.c, condOperand), LAMBDA ri :
        With(opStoreRegVars(opInitLocals(ri.c), TRUE), LAMBDA c2 :
            IF ~Ok(c2) THEN c2
            ELSE
            LET defaultDelta == c2.stackOffset - defaultTarget.stackOffset
                tableStackOffset == c2.stackOffset - defaultDelta
                c3 == OpAddImmToStackPtr(c2, defaultDelta)
                c4 == OpLoadROIntIndex32ScaleDisp(
                        opBranchIfOutOfBounds(c3, ri.reg, Len(targets), pos),
                        tableType, ri.reg, ri.zeroExt, tableScale, a.addr)
                c5 == IF commonStackOffset >= 0
                      THEN OpAddImmToStackPtr(
                                c4, tableStackOffset - commonStackOffset)
                      ELSE opAddHighToStackPtr(c4, r2.reg, ri.reg)
                c6 == OpBranchIndirect32(c5, ri.reg, commonStackOffset >= 0)
                c7 == IF ri.free THEN FreeReg(c6, ri.reg) ELSE c6
                c8 == IF commonStackOffset < 0 THEN FreeReg(c7, r2.reg)
                      ELSE c7
            IN  IF ~Ok(c8) THEN c8
                ELSE [c8 EXCEPT !.branchTables = Append(@,
                        [roDataAddr |-> a.addr,
                         targets |-> [i \in 1..Len(targets) |->
                                        [pos |-> tablePos[i],
                                         stackOffset |-> targets[i].stackOffset,
                                         addr |-> targets[i].label.Address]],
                         codeStackOffset |-> IF commonStackOffset < 0
                                             THEN tableStackOffset ELSE -1,
                         stackOffset |-> c2.stackOffset,
                         default |-> defaultTarget.stackOffset,
                         first |-> Emitted(c2, c3),
                         second |-> Emitted(c4, c5)])]))))

\* L.SetLive for the targets of a table
RECURSIVE setLive(_, _, _)
setLive(c, tablePos, i) ==
    IF i > Len(tablePos) THEN c
    ELSE setLive([c EXCEPT !.targetStack[tablePos[i]].label.live = TRUE],
                 tablePos, i + 1)

\* coder.exprBr: br with an index and maybe a value, br_if with an index, maybe
\* a value, and a condition, br_table with the indexes of the table, the
\* default index, maybe a value, and the index operand
exprBr(c, x) ==
    LET isTable == x[1] = "br_table"
        tableIndexes == IF isTable THEN x[2] ELSE <<>>
        name == IF isTable /\ tableIndexes = <<>> THEN "br" ELSE x[1]
        hasCond == x[1] \in {"br_if", "br_table"}
        hasValue == Len(x) = (CASE x[1] = "br" -> 3 [] x[1] = "br_if" -> 4
                                [] OTHER -> 5)
        valueExpr == x[IF isTable THEN 4 ELSE 3]
        pos == findTarget(c, IF isTable THEN x[3] ELSE x[2])
        tablePos == [i \in 1..Len(tableIndexes) |->
                        findTarget(c, tableIndexes[i])]
        valueTypes == {c.targetStack[q].expectType :
                        q \in {pos} \cup {tablePos[i] :
                                            i \in 1..Len(tablePos)}} \ {Void}
        valueType == IF valueTypes = {} THEN Void
                     ELSE CHOOSE t \in valueTypes : TRUE
        live(y) == IF valueType # Void THEN <<LiveOperand(valueType, y)>>
                   ELSE <<>>
    IN  IF pos = 0 \/ \E i \in 1..Len(tablePos) : tablePos[i] = 0
        THEN Done(Panic(c, "br: target"), NoOperand, FALSE)
        ELSE IF Cardinality(valueTypes) > 1
        THEN Done(Panic(c, "branch targets have inconsistent value types"),
                  NoOperand, FALSE)
        ELSE With(IF hasValue
                  THEN expr(setLive(c, tablePos, 1), valueExpr, valueType,
                            FALSE, <<>>)
                  ELSE [c |-> IF valueType # Void
                              THEN Panic(c, "no value expression while expected value type is not void")
                              ELSE setLive(c, tablePos, 1),
                        result |-> NoOperand, deadend |-> FALSE], LAMBDA r :
            IF ~Ok(r.c) THEN Done(r.c, NoOperand, FALSE)
            ELSE IF r.deadend THEN Done(OpAbort(r.c), NoOperand, TRUE)
            ELSE With(IF hasCond
                      THEN expr(r.c, x[Len(x)], I32, FALSE, live(r.result))
                      ELSE [c |-> r.c, result |-> NoOperand,
                            deadend |-> FALSE, save |-> live(r.result)],
                      LAMBDA rc :
                LET value == IF valueType # Void THEN rc.save[1].x
                             ELSE r.result
                IN  IF ~Ok(rc.c) THEN Done(rc.c, NoOperand, FALSE)
                    ELSE IF rc.deadend
                    THEN Done(OpAbort(Discard(rc.c, value)), NoOperand, TRUE)
                    ELSE With(IF valueType # Void
                              THEN opMove(rc.c, valueType, RegResult, value,
                                          TRUE)
                              ELSE rc.c, LAMBDA c1 :
                        With(Targeted(c1, <<pos>> \o tablePos, 1), LAMBDA c2 :
                        IF ~Ok(c2) THEN Done(c2, NoOperand, FALSE)
                        ELSE IF name = "br_if"
                        THEN Done(brIf(c2, rc.result, pos), NoOperand, FALSE)
                        ELSE IF name = "br_table"
                        THEN Done(brTable(c2, rc.result, tablePos, pos),
                                  NoOperand, TRUE)
                        ELSE Done(br(c2, pos), NoOperand, TRUE)))))

\* values.InvertedConditions, of the conditions of the model
Inverted(cond) == IF cond = Eq THEN Ne ELSE Eq

\* ISA.OpBranchIf, for the integer conditions and not yes
OpBranchIfNot(c, x, addr) ==
    IF x.Storage = "ConditionFlags"
    THEN jccOp(FlagsUsed(c, "jcc"), Inverted(x.Value), addr)
    ELSE With(opBorrowMaybeScratchReg(c, I32, x, FALSE), LAMBDA r :
            With(jccOp(Insn(r.c, "test", r.reg, "reg", r.reg), Eq, addr),
                 LAMBDA c1 : IF r.own THEN FreeReg(c1, r.reg) ELSE c1))

\* the label at the end of an if, which is the target of both arms, with the
\* history of the target
End == [label |-> Label, targeted |-> FALSE]

\* coder.ifExprs: an arm is the name and the children, or one expression
ifExprs(c, x, name, end, expectType, finalSibling) ==
    LET children == IF x[1] = name THEN SubSeq(x, 2, Len(x)) ELSE <<x>>
        none == [c |-> c, deadend |-> FALSE, endReached |-> FALSE,
                 end |-> end, fell |-> TRUE]
    IN  IF children = <<>> \/ ~Ok(c) THEN none
        ELSE With(pushTarget(c, expectType, finalSibling), LAMBDA c0 :
             With(exprChildren(
                    [c0 EXCEPT !.targetStack[Len(c0.targetStack)].label =
                                    end.label,
                               !.targetStack[Len(c0.targetStack)].targeted =
                                    end.targeted],
                    children, 1, expectType, finalSibling, NoOperand),
                  LAMBDA r :
             IF ~Ok(r.c) THEN [none EXCEPT !.c = r.c]
             ELSE With(popTarget(
                         IF ~r.deadend /\ expectType # Void
                         THEN opMove(r.c, expectType, RegResult, r.result,
                                     FALSE)
                         ELSE r.c), LAMBDA p :
                    [c |-> p.c, deadend |-> r.deadend, endReached |-> p.live,
                     end |-> [label |-> p.label,
                              targeted |->
                                r.c.targetStack[Len(r.c.targetStack)].targeted],
                     fell |-> ~r.deadend])))

\* coder.exprIf: the type, the condition, the then arm and maybe the else arm
exprIf(c, x, expectType, final) ==
    LET valueType == x[2]
        haveElse == Len(x) = 5
        pos == Len(c.targetStack) + 1
        ended(d, end, fell, bound) ==
            Ended(d, "if",
                  [label |-> end.label, targeted |-> end.targeted,
                   lowered |-> 0, deadAt |-> 0, children |-> 0,
                   functionEnd |-> final, stackOffset |-> c.stackOffset],
                  fell, bound)
    IN  IF expectType # Void /\ valueType # expectType
        THEN Done(Panic(c, "if: signature"), NoOperand, FALSE)
        ELSE IF Len(x) > 5 THEN Done(Panic(c, "if: too many operands"),
                                     NoOperand, FALSE)
        ELSE With(expr(c, x[3], I32, FALSE, <<>>), LAMBDA ri :
        IF ~Ok(ri.c) THEN Done(ri.c, NoOperand, FALSE)
        ELSE IF ri.deadend THEN Done(OpAbort(ri.c), NoOperand, TRUE)
        ELSE With(opStoreRegVars(opInitLocals(opSaveTempRegOperands(ri.c)),
                                 FALSE), LAMBDA c1 :
        With(effectiveOperand(c1, ri.result), LAMBDA e :
        With(IF ~Ok(e.c)
             THEN [c |-> e.c, end |-> End, reachable |-> FALSE, fell |-> {}]
             ELSE IF haveElse
             THEN With(OpBranchIf(e.c, e.x, 0), LAMBDA c2 :
                  With(ifExprs(c2, x[5], "else", End, expectType, final),
                       LAMBDA el :
                  With(IF ~Ok(el.c) \/ el.deadend
                       THEN [c |-> el.c, end |-> el.end]
                       ELSE IF final
                       THEN [c |-> OpReturn(OpAddImmToStackPtr(
                                       el.c, el.c.stackOffset)),
                             end |-> el.end]
                       ELSE With(OpBranch(
                                    opStoreRegVars(
                                        opSaveTempRegOperands(el.c), TRUE),
                                    el.end.label.Address), LAMBDA c3 :
                                [c |-> c3,
                                 end |-> [el.end EXCEPT !.label.Sites =
                                            Append(@, TextLen(c3))]]),
                       LAMBDA b :
                  With(opLabel(b.c), LAMBDA c4 :
                    [c |-> IF Ok(c4)
                           THEN UpdateBranches(c4, <<TextLen(c2)>>,
                                               TextLen(c4), 1)
                           ELSE c4,
                     end |-> b.end,
                     reachable |-> (~el.deadend /\ ~final) \/ el.endReached,
                     fell |-> IF el.deadend THEN {} ELSE {"else"}]))))
             ELSE With(OpBranchIfNot(e.c, e.x, 0), LAMBDA c2 :
                    [c |-> c2,
                     end |-> [End EXCEPT !.label.Sites =
                                Append(@, TextLen(c2))],
                     reachable |-> TRUE, fell |-> {"none"}]), LAMBDA a :
        IF ~Ok(a.c) THEN Done(a.c, NoOperand, FALSE)
        ELSE With(ifExprs(a.c, x[4], "then", a.end, expectType, final),
                  LAMBDA th :
             IF ~Ok(th.c) THEN Done(th.c, NoOperand, FALSE)
             ELSE IF a.reachable \/ ~th.deadend \/ th.endReached
             THEN With(opLabel(th.c), LAMBDA c5 :
                    ended(Done(IF Ok(c5)
                               THEN UpdateBranches(
                                      BindTables(c5, pos, TextLen(c5)),
                                      th.end.label.Sites, TextLen(c5), 1)
                               ELSE c5,
                               IF expectType # Void
                               THEN TempRegOperand(RegResult) ELSE NoOperand,
                               FALSE),
                          th.end,
                          a.fell \cup (IF th.fell THEN {"then"} ELSE {}),
                          TRUE))
             ELSE ended(Done(th.c, NoOperand, TRUE), th.end,
                        a.fell \cup (IF th.fell THEN {"then"} ELSE {}),
                        FALSE))))))

\* coder.opPushCallArgs, the loop over the arguments
opPushCallArgs(c, args, i, initialStackOffset) ==
    LET n == c.stackOffset + WordSize       \* the return address
        aborted(a) ==
            [a EXCEPT !.maxStackOffset = IF a.stackOffset + WordSize > @
                                         THEN a.stackOffset + WordSize ELSE @,
                      !.stackOffset = initialStackOffset]
    IN  IF ~Ok(c) THEN [c |-> c, deadend |-> FALSE, argsSize |-> 0]
        ELSE IF i > Len(args)
        THEN [c |-> [c EXCEPT !.maxStackOffset = IF n > @ THEN n ELSE @],
              deadend |-> FALSE,
              argsSize |-> c.stackOffset - initialStackOffset]
        ELSE With(expr(c, args[i], I32, FALSE, <<>>), LAMBDA r :
            IF ~Ok(r.c) THEN [c |-> r.c, deadend |-> FALSE, argsSize |-> 0]
            ELSE IF r.deadend
            THEN [c |-> aborted(OpAbort(r.c)), deadend |-> TRUE,
                  argsSize |-> 0]
            ELSE With(effectiveOperand(r.c, r.result), LAMBDA e :
                    opPushCallArgs(incrementStackOffset(OpPush(e.c, I32, e.x)),
                                   args, i + 1, initialStackOffset)))

\* calls is the history of the call instructions: the live operands, the
\* variables and the registers allocated when the instruction is emitted
Called(c, name) ==
    IF Ok(c)
    THEN [c EXCEPT !.calls = Append(@,
            [name |-> name, at |-> TextLen(c),
             liveOperands |-> c.liveOperands, vars |-> c.vars,
             regsInt |-> c.regsInt, regsFloat |-> c.regsFloat])]
    ELSE c

\* coder.exprCall
exprCall(c, x, expectType) ==
    LET target == x[2]
    IN  IF target \notin Callables
        THEN Done(Panic(c, "call: function not found"), NoOperand, FALSE)
        ELSE IF expectType # Void /\ Result(target) # expectType
        THEN Done(Panic(c, "call: result type"), NoOperand, FALSE)
        ELSE With(opInitLocals(opSaveTempRegOperands(c)), LAMBDA c1 :
            With(IF NumArgs(target) # Len(x[3])
                 THEN [c |-> Panic(c1, "call: wrong number of arguments"),
                       deadend |-> FALSE, argsSize |-> 0]
                 ELSE opPushCallArgs(c1, x[3], 1, c1.stackOffset), LAMBDA a :
                IF ~Ok(a.c) THEN Done(a.c, NoOperand, FALSE)
                ELSE IF a.deadend THEN Done(OpAbort(a.c), NoOperand, TRUE)
                ELSE With(opStoreRegVars(a.c, TRUE), LAMBDA c2 :
                        Done(IF Ok(c2)
                             THEN opAddImmToStackPtr(
                                    OpCallLink(Called(c2, "call"), target),
                                    a.argsSize)
                             ELSE c2,
                             IF expectType # Void
                             THEN TempRegOperand(RegResult) ELSE NoOperand,
                             FALSE))))

\* sets is the history of the variables that exprSetLocal has assigned, and
\* indexes the history of the index operands of call_indirect: the operand
\* that is read, and the assignments made since the index was lowered
Indexed(c, x, lowered) ==
    [c EXCEPT !.indexes = Append(@,
        [index |-> x,
         since |-> SubSeq(c.sets, Len(lowered.sets) + 1, Len(c.sets))])]

\* coder.exprCallIndirect: the function whose signature is called for, the
\* index into the table and the arguments
exprCallIndirect(c, x, expectType) ==
    LET sig == x[2]
        tableLen == Len(module.table)
    IN  IF sig \notin Callables
        THEN Done(Panic(c, "call_indirect: signature"), NoOperand, FALSE)
        ELSE IF expectType # Void /\ Result(sig) # expectType
        THEN Done(Panic(c, "call_indirect: result type"), NoOperand, FALSE)
        ELSE With(expr(c, x[3], I32, FALSE, <<>>), LAMBDA ri :
        IF ~Ok(ri.c) THEN Done(ri.c, NoOperand, FALSE)
        ELSE IF ri.deadend THEN Done(OpAbort(ri.c), NoOperand, TRUE)
        ELSE With(CASE ri.result.Storage \in {"Imm", "Var"} ->
                        [c |-> ri.c, x |-> ri.result, offset |-> 0]
                    [] ri.result.Storage \in {"TempReg", "ConditionFlags"} ->
                        With(incrementStackOffset(
                                OpPush(ri.c, I32, ri.result)), LAMBDA cp :
                            [c |-> cp, x |-> StackOperand,
                             offset |-> cp.stackOffset])
                    [] ri.result.Storage = "Stack" ->
                        [c |-> ri.c, x |-> ri.result,
                         offset |-> ri.c.stackOffset]
                    [] OTHER ->
                        [c |-> Panic(ri.c, "call_indirect: index operand"),
                         x |-> ri.result, offset |-> 0], LAMBDA ix :
        With(opInitLocals(opSaveTempRegOperands(ix.c)), LAMBDA c1 :
        With(IF NumArgs(sig) # Len(x[4])
             THEN [c |-> Panic(c1, "call_indirect: wrong number of arguments"),
                   deadend |-> FALSE, argsSize |-> 0]
             ELSE opPushCallArgs(c1, x[4], 1, c1.stackOffset), LAMBDA a :
        IF ~Ok(a.c) THEN Done(a.c, NoOperand, FALSE)
        ELSE IF a.deadend
        THEN Done(OpAbort(Discard(a.c, ix.x)), NoOperand, TRUE)
        ELSE With(IF ix.x.Storage = "Stack"
                  THEN Insn(Indexed(a.c, ix.x, ix.c), "movzx32", RegResult,
                            "stack", a.c.stackOffset - ix.offset)
                  ELSE opMove(Indexed(a.c, ix.x, ix.c), I32, RegResult, ix.x,
                              FALSE), LAMBDA c2 :
        With(jleOp(opCompareBounds(c2, RegResult, tableLen), 0), LAMBDA c3 :
        With(opStoreRegVars(
                OpLoadROIntIndex32ScaleDisp(c3, I64, RegResult, TRUE, 3,
                                            roTableAddr), TRUE), LAMBDA c4 :
        With(TryAllocReg(c4), LAMBDA r :
        IF ~Ok(c4) THEN Done(c4, NoOperand, FALSE)
        ELSE IF ~r.ok
        THEN Done(Panic(c4, "impossible situation"), NoOperand, FALSE)
        ELSE With(jccOp(Insn(Insn(Insn(r.c, "mov64", r.reg, "reg", RegResult),
                                  "shr64", r.reg, "imm", 32),
                             "cmp32", r.reg, "imm", SigIndex(sig)), Eq, 0),
                  LAMBDA c5 :
        With(OpCallTrap(FreeReg(c5, r.reg), IndirectCallSignature),
             LAMBDA c6 :
        With(OpCallTrap(c6, IndirectCallIndex), LAMBDA c7 :
        With(AddIndirectCallSite(
                Insn(Insn(Called(c7, "call_indirect"),
                          "add64", RegResult, "reg", RegTextBase),
                     "call", RegResult, "", 0)), LAMBDA c8 :
        With(opAddImmToStackPtr(
                c8, IF ix.x.Storage = "Stack" THEN a.argsSize + WordSize
                    ELSE a.argsSize), LAMBDA c9 :
            Done(IF Ok(c9)
                 THEN UpdateBranches(
                        UpdateBranches(c9, <<TextLen(c5)>>, TextLen(c7), 1),
                        <<TextLen(c3)>>, TextLen(c6), 1)
                 ELSE c9,
                 IF expectType # Void THEN TempRegOperand(RegResult)
                 ELSE NoOperand,
                 FALSE))))))))))))))

\* coder.exprDrop: a dead end of the operand is not handed on
exprDrop(c, x, final) ==
    With(expr(c, x[2], Void, final, <<>>), LAMBDA r :
        Done(IF r.deadend THEN OpAbort(r.c) ELSE r.c, NoOperand, FALSE))

\* coder.exprReturn
exprReturn(c, x) ==
    LET expectType == Result(c.function)
        return(c1) ==
            IF ~Ok(c1) THEN Done(c1, NoOperand, TRUE)
            ELSE Done(OpReturn(OpAddImmToStackPtr(c1, c1.stackOffset)),
                      NoOperand, TRUE)
    IN  IF expectType # Void /\ Len(x) = 1
        THEN Done(Panic(c, "return: too few operands"), NoOperand, TRUE)
        ELSE IF Len(x) > 1
        THEN With(expr(c, x[2], expectType, TRUE, <<>>), LAMBDA r :
                IF ~Ok(r.c) THEN Done(r.c, NoOperand, TRUE)
                ELSE IF r.deadend THEN Done(OpAbort(r.c), NoOperand, TRUE)
                ELSE return(IF expectType # Void
                            THEN opMove(r.c, expectType, RegResult, r.result,
                                        FALSE)
                            ELSE r.c))
        ELSE return(c)

\* coder.exprSelect
exprSelect(c, x, t) ==
    LET live(y) == IF t # Void THEN <<LiveOperand(t, y)>> ELSE <<>>
    IN  With(expr(c, x[2], t, FALSE, <<>>), LAMBDA ra :
        IF ~Ok(ra.c) THEN Done(ra.c, NoOperand, FALSE)
        ELSE IF ra.deadend THEN Done(OpAbort(ra.c), ra.result, TRUE)
        ELSE With(expr(ra.c, x[3], t, FALSE, live(ra.result)), LAMBDA rb :
            LET a1 == IF t # Void THEN rb.save[1].x ELSE ra.result
            IN  IF ~Ok(rb.c) THEN Done(rb.c, NoOperand, FALSE)
                ELSE IF rb.deadend
                THEN Done(OpAbort(Discard(rb.c, a1)), rb.result, TRUE)
                ELSE With(expr(rb.c, x[4], I32, FALSE,
                               live(a1) \o live(rb.result)), LAMBDA rc :
                    LET a == IF t # Void THEN rc.save[1].x ELSE a1
                        b == IF t # Void THEN rc.save[2].x ELSE rb.result
                        cond == rc.result
                    IN  IF ~Ok(rc.c) THEN Done(rc.c, NoOperand, FALSE)
                        ELSE IF rc.deadend
                        THEN Done(OpAbort(Discard(Discard(rc.c, b), a)),
                                  NoOperand, TRUE)
                        ELSE IF cond.Storage = "Imm"
                        THEN IF cond.Value # 0
                             THEN Done(Discard(rc.c, b), a, FALSE)
                             ELSE Done(Discard(rc.c, a), b, FALSE)
                        ELSE IF t # Void
                        THEN With(opMaterializeOperand(rc.c, t, b), LAMBDA mb :
                             With(opMaterializeOperand(mb.c, t, a), LAMBDA ma :
                             With(opPreloadOperand(ma.c, I32, cond),
                                  LAMBDA pcond :
                             With(OpSelect(pcond.c, t, ma.x, mb.x, pcond.x),
                                  LAMBDA s :
                                Done(s.c, s.result, FALSE)))))
                        ELSE Done(rc.c, NoOperand, FALSE))))

\* coder.exprSetLocal
exprSetLocal(c, x) ==
    LET index == x[2]
    IN  IF index < 0 \/ index >= Len(c.vars)
        THEN Done(Panic(c, "set_local: variable not found"), NoOperand, FALSE)
        ELSE With(expr(c, x[3], I32, FALSE, <<>>), LAMBDA r :
            IF ~Ok(r.c) THEN Done(r.c, NoOperand, FALSE)
            ELSE IF r.deadend THEN Done(OpAbort(r.c), NoOperand, TRUE)
            ELSE IF r.result.Storage = "Var" /\ r.result.Index = index
            THEN Done(r.c, NoOperand, FALSE)
            ELSE With(setLocalRefs(r.c, index), LAMBDA c1 :
                    IF ~Ok(c1) THEN Done(c1, NoOperand, FALSE)
                    ELSE Done(setLocalValue(
                                [c1 EXCEPT !.sets = Append(@, index)],
                                index, r.result, r.c.vars[index + 1].cache),
                              NoOperand, FALSE)))

\* the operation of an expression: what it codes, and whether it is one
\* that yields no value
exprOp(c, x, expectType, final) ==
    LET name == x[1]
        dotted(r) ==
            IF expectType = Void
            THEN [c |-> Discard(r.c, r.result), result |-> NoOperand,
                  deadend |-> r.deadend, voidResult |-> FALSE]
            ELSE IF I32 # expectType
            THEN [c |-> Panic(r.c, "parent expects another type"),
                  result |-> r.result, deadend |-> r.deadend,
                  voidResult |-> FALSE]
            ELSE [c |-> r.c, result |-> r.result, deadend |-> r.deadend,
                  voidResult |-> FALSE]
        plain(r, voidResult) ==
            [c |-> r.c, result |-> r.result, deadend |-> r.deadend,
             voidResult |-> voidResult]
    IN  CASE name = "i32.const" -> dotted(Done(c, exprConst(x), FALSE))
          [] name \in DOMAIN opNames ->
                dotted(exprBinaryOp(c, opNames[name], I32, x))
          [] name = "block" ->
                plain(exprBlock(c, x, expectType, final, <<>>), FALSE)
          [] name = "loop" -> plain(exprLoop(c, x, expectType, final), FALSE)
          [] name \in {"br", "br_if", "br_table"} ->
                plain(exprBr(c, x), TRUE)
          [] name = "call" -> plain(exprCall(c, x, expectType), FALSE)
          [] name = "call_indirect" ->
                plain(exprCallIndirect(c, x, expectType), FALSE)
          [] name = "if" -> plain(exprIf(c, x, expectType, final), FALSE)
          [] name = "drop" -> plain(exprDrop(c, x, final), TRUE)
          [] name = "get_local" -> plain(exprGetLocal(c, x, expectType), FALSE)
          [] name = "nop" -> plain(Done(c, NoOperand, FALSE), TRUE)
          [] name = "return" -> plain(exprReturn(c, x), TRUE)
          [] name = "select" -> plain(exprSelect(c, x, expectType), FALSE)
          [] name = "set_local" -> plain(exprSetLocal(c, x), TRUE)
          [] OTHER -> plain(Done(Panic(c, name), NoOperand, FALSE), FALSE)

\* caches is the history of the states in which the operation of an
\* expression with side effects starts: the variables, the live operands and
\* the allocated registers
Cached(c) ==
    [c EXCEPT !.caches = Append(@,
        [function |-> c.function, vars |-> c.vars,
         liveOperands |-> c.liveOperands, regsInt |-> c.regsInt,
         pushedLocals |-> c.pushedLocals])]

\* coder.expr
expr(c, x, expectType, final, save) ==
    LET pure == x[1] \in {"i32.const", "get_local", "nop", "unreachable"}
        checked(r) ==
            IF r.result.Storage = "Stack"
            THEN Panic(r.c, "result operand is on the stack")
            ELSE IF r.deadend THEN OpAbort(r.c)
            ELSE IF r.voidResult /\ expectType # Void
            THEN Panic(r.c, "expression does not yield value")
            ELSE IF (expectType = Void) # (r.result.Storage = "Nowhere")
            THEN Panic(r.c, "expression type and result differ")
            ELSE r.c
    IN  With(IF pure THEN [c |-> c, save |-> save] ELSE pushSave(c, save, 1),
             LAMBDA p :
        IF ~Ok(c) \/ ~Ok(p.c)
        THEN [c |-> p.c, result |-> NoOperand, deadend |-> FALSE,
              save |-> save]
        ELSE With(exprOp(IF pure THEN p.c ELSE Cached(p.c), x, expectType,
                         final), LAMBDA r :
            With(IF pure THEN [c |-> checked(r), save |-> save]
                 ELSE popSave(checked(r), p.save, Len(save)), LAMBDA q :
                [c |-> q.c,
                 result |-> IF r.deadend THEN NoOperand ELSE r.result,
                 deadend |-> r.deadend, save |-> q.save])))

\* the per-function state that genFunction resets, code.go:287-306: the
\* parameters are in memory, the locals are zeros not yet pushed
ResetFunctionState(c, f) ==
    [c EXCEPT !.function = f,
              !.trapTrampolines = [id \in 0..(NumTraps - 1) |-> 0],
              !.vars = [i \in 1..(NumArgs(f) + Function(f).locals) |->
                            IF i <= NumArgs(f) THEN VarState(NoOperand, FALSE)
                            ELSE VarState(ImmOperand(0), TRUE)],
              !.pushedLocals = 0,
              !.stackOffset = 0,
              !.maxStackOffset = 0]

\* genFunction 287-313: the prologue and the target of the function's end
genFunctionBegin(c, f) ==
    With(ResetFunctionState(c, f), LAMBDA c0 :
        With(OpFunctionPrologue(c0), LAMBDA p :
            [code |-> pushTarget(p.code, Result(f), TRUE),
             mapAddr |-> TextLen(c0),
             invokeAddr |-> p.invokeAddr,
             stackUsageAddr |-> p.stackUsageAddr,
             stackCheckEndAddr |-> TextLen(p.code)]))

\* genFunction 317-336: child i of the body
genFunctionChild(c, i) ==
    LET body == Function(c.function).body
        final == i = Len(body)
        t == IF final THEN Result(c.function) ELSE Void
    IN  With(expr(c, body[i], t, final, <<>>), LAMBDA r :
            IF ~Ok(r.c) THEN [c |-> r.c, deadend |-> FALSE]
            ELSE IF r.deadend THEN [c |-> OpAbort(r.c), deadend |-> TRUE]
            ELSE IF t # Void
            THEN [c |-> opMove(r.c, t, RegResult, r.result, FALSE),
                  deadend |-> FALSE]
            ELSE [c |-> r.c, deadend |-> FALSE])

RECURSIVE genFunctionChildren(_, _)
genFunctionChildren(c, i) ==
    IF i > Len(Function(c.function).body) \/ ~Ok(c)
    THEN [c |-> c, deadend |-> FALSE]
    ELSE With(genFunctionChild(c, i), LAMBDA r :
            IF r.deadend \/ ~Ok(r.c) THEN r
            ELSE genFunctionChildren(r.c, i + 1))

\* genFunction 349-361: no variable is referred to; the registers of the
\* variables are freed
RECURSIVE endVars(_, _)
endVars(c, i) ==
    LET v == c.vars[i + 1]
    IN  IF ~Ok(c) \/ i >= Len(c.vars) THEN c
        ELSE IF v.refCount # 0
        THEN Panic(c, "variable reference count is non-zero at end of function")
        ELSE With(IF v.cache.Storage = "VarReg" THEN FreeReg(c, v.cache.Reg)
                  ELSE c, LAMBDA c1 :
                IF ~Ok(c1) THEN c1
                ELSE endVars([c1 EXCEPT !.vars[i + 1] = varReset(@)], i + 1))

\* genFunction 363-372
endChecks(c) ==
    With(postCheck(postCheck(c, c.regsInt), c.regsFloat), LAMBDA c1 :
        IF ~Ok(c1) THEN c1
        ELSE IF Len(c1.liveOperands) # 0
        THEN Panic(c1, "live operands exist at end of function")
        ELSE IF Len(c1.targetStack) # 0
        THEN Panic(c1, "branch target stack is not empty at end of function")
        ELSE c1)

\* binary.LittleEndian.PutUint32 and PutUint64 into the read-only data
putRO(c, addr, bytes) ==
    [c EXCEPT !.roData = [i \in 1..Len(@) |->
        IF i > addr /\ i <= addr + Len(bytes) THEN bytes[i - addr] ELSE @[i]]]

\* the entries with the address only
RECURSIVE fillAddrs(_, _, _)
fillAddrs(c, table, i) ==
    IF i > Len(table.targets) THEN c
    ELSE fillAddrs(putRO(c, table.roDataAddr + 4 * (i - 1),
                         LE32(table.targets[i].addr)), table, i + 1)

\* the packed entries with the halves exchanged
RECURSIVE fillPackedSwapped(_, _, _)
fillPackedSwapped(c, table, i) ==
    LET target == table.targets[i]
        delta == table.codeStackOffset - target.stackOffset
    IN  IF i > Len(table.targets) THEN c
        ELSE fillPackedSwapped(putRO(c, table.roDataAddr + 8 * (i - 1),
                                     LE32(delta) \o LE32(target.addr)),
                               table, i + 1)

\* the entries packed of the delta, as uint32 in the high half, and the address
RECURSIVE fillPacked(_, _, _)
fillPacked(c, table, i) ==
    LET target == table.targets[i]
        delta == table.codeStackOffset - target.stackOffset
    IN  IF i > Len(table.targets) THEN c
        ELSE fillPacked(putRO(c, table.roDataAddr + 8 * (i - 1),
                              LE32(target.addr) \o LE32(delta)),
                        table, i + 1)

\* genFunction 383-399: tables holds the tables that are done
RECURSIVE fillBranchTables(_, _)
fillBranchTables(c, k) ==
    IF k > Len(c.branchTables)
    THEN [c EXCEPT !.tables = @ \o c.branchTables, !.branchTables = <<>>]
    ELSE fillBranchTables(
            IF c.branchTables[k].codeStackOffset < 0
            THEN fillAddrs(c, c.branchTables[k], 1)
            ELSE fillPacked(c, c.branchTables[k], 1), k + 1)

\* genFunction 338-401: the end label, the return, the checks and the stack
\* check of the prologue
genFunctionEnd(c, f, deadend, p) ==
    LET newAddr == p.stackCheckEndAddr - (p.stackCheckEndAddr % FuncAlignment)
    IN  IF ~Ok(c) THEN c
        ELSE With(popTarget(c), LAMBDA t :
            With(IF t.live
                 THEN With(opLabel(t.c), LAMBDA l :
                        IF Ok(l)
                        THEN UpdateBranches(BindTables(l, 1, TextLen(l)),
                                            t.label.Sites, TextLen(l), 1)
                        ELSE l)
                 ELSE t.c, LAMBDA c1 :
            With(endChecks(endVars(
                     IF (t.live \/ ~deadend) /\ Ok(c1)
                     THEN OpReturn(opAddImmToStackPtr(c1, c1.stackOffset))
                     ELSE c1, 0)), LAMBDA c3 :
                IF ~Ok(c3) THEN c3
                ELSE IF c3.maxStackOffset > 0
                THEN [fillBranchTables(
                        UpdateStackDisp(c3, p.stackUsageAddr,
                                        c3.maxStackOffset), 1)
                        EXCEPT !.links[f].Address = p.invokeAddr]
                ELSE [fillBranchTables(
                        DisableCode(DeleteCode(c3, p.invokeAddr, newAddr),
                                    newAddr, p.stackCheckEndAddr), 1)
                        EXCEPT !.links[f].Address = newAddr])))

\* coder.genFunction
genFunction(c, f) ==
    With(genFunctionBegin(c, f), LAMBDA p :
        With(genFunctionChildren(p.code, 1), LAMBDA r :
            [code |-> genFunctionEnd(r.c, f, r.deadend, p),
             mapAddr |-> p.mapAddr]))

-----------------------------------------------------------------------------
(* Entry routines. *)

\* ISA.OpEnterTrapHandler: mov imm32 to the result register, movq from the
\* trap handler register, indirect jump
OpEnterTrapHandler(c, id) ==
    Emit(c, <<184>> \o LE32(id) \o <<72, 15, 126, 250>> \o <<255, 226>>)

\* coder.genTrapEntry
genTrapEntry(c, id) ==
    OpEnterTrapHandler([c EXCEPT !.trapEntries[id] = TextLen(c)], id)

RECURSIVE genTrapEntries(_, _)
genTrapEntries(c, id) ==
    IF id >= NumTraps THEN c
    ELSE With(IF id # MissingFunction THEN genTrapEntry(c, id) ELSE c,
              LAMBDA c1 : genTrapEntries(c1, id + 1))

\* ISA.OpInit: add to the stack limit register, test, je over ret
OpInit(c) ==
    Emit(alignFunc(c), <<72, 131, 195, 64>> \o <<72, 133, 192>> \o <<116, 1>> \o ret)

\* mach.OpInit of code.go: the init routine and the call of the start function
OpInitLink(c, start) ==
    AddCallSite(OpInitCall(OpInit(c)), start)

\* ISA.OpEnterImportFunc, not variadic: 64-bit immediate move and indirect jump
OpEnterImportFunc(c, absAddr) ==
    Emit(c, <<72, 184>> \o LE32(absAddr) \o LE32(0) \o <<255, 224>>)

\* the address of the implementation of import c
ImplAddress(c) == 4096 * c

\* coder.genImportEntry
genImportEntry(c, im) ==
    LET c1 == Align(c, FuncAlignment, PaddingByte)
        addr == TextLen(c1)
    IN  [code |-> OpEnterImportFunc(c1, ImplAddress(im)), addr |-> addr]

\* a coder that appends to what the buffers hold
NewCoderKeep(textBuf, roDataBuf) ==
    [text |-> textBuf,
     roData |-> roDataBuf,
     callMap |-> <<>>,
     links |-> [c \in Callables |->
                    [Address |-> 0, Sites |-> <<>>, TableIndexes |-> <<>>]],
     trapEntries |-> [id \in 0..(NumTraps - 1) |-> 0],
     trapTrampolines |-> [id \in 0..(NumTraps - 1) |-> 0],
     pushedLocals |-> 0,
     stackOffset |-> 0,
     maxStackOffset |-> 0,
     function |-> 0,
     vars |-> <<>>,
     liveOperands |-> <<>>,
     immutableLiveOperands |-> 0,
     targetStack |-> <<>>,
     regsInt |-> {},
     regsFloat |-> {},
     panic |-> "",
     callSites |-> <<>>,
     siteOffsets |-> <<>>,
     folds |-> <<>>,
     branches |-> <<>>,
     flags |-> [epoch |-> 0, made |-> 0, uses |-> <<>>],
     branchTables |-> <<>>,
     tables |-> <<>>,
     refs |-> <<>>,
     order |-> <<>>,
     ends |-> <<>>,
     binds |-> <<>>,
     locals |-> <<>>,
     calls |-> <<>>,
     sets |-> <<>>,
     indexes |-> <<>>,
     caches |-> <<>>]

\* NewCoder: the coder built at the start of Module.Code (code.go:95-103) and
\* the gen.Prog built at the start of GenProgram, over the given buffers
NewCoder(textBuf, roDataBuf) ==
    [text |-> SubSeq(textBuf, 1, 0),
     roData |-> SubSeq(roDataBuf, 1, 0),
     callMap |-> <<>>,
     links |-> [c \in Callables |->
                    [Address |-> 0, Sites |-> <<>>, TableIndexes |-> <<>>]],
     trapEntries |-> [id \in 0..(NumTraps - 1) |-> 0],
     trapTrampolines |-> [id \in 0..(NumTraps - 1) |-> 0],
     pushedLocals |-> 0,
     stackOffset |-> 0,
     maxStackOffset |-> 0,
     function |-> 0,
     vars |-> <<>>,
     liveOperands |-> <<>>,
     immutableLiveOperands |-> 0,
     targetStack |-> <<>>,
     regsInt |-> {},
     regsFloat |-> {},
     panic |-> "",
     callSites |-> <<>>,
     siteOffsets |-> <<>>,
     folds |-> <<>>,
     branches |-> <<>>,
     flags |-> [epoch |-> 0, made |-> 0, uses |-> <<>>],
     branchTables |-> <<>>,
     tables |-> <<>>,
     refs |-> <<>>,
     order |-> <<>>,
     ends |-> <<>>,
     binds |-> <<>>,
     locals |-> <<>>,
     calls |-> <<>>,
     sets |-> <<>>,
     indexes |-> <<>>,
     caches |-> <<>>]

\* dataArena.alloc of the table
AllocTable(c) == [c EXCEPT !.roData = @ \o Fill(Len(module.table) * 8, 0)]

\* the offset written as 64 bits
WriteFuncMap64(fm, addr) == fm \o LE32(addr) \o LE32(0)

\* binary.Write of one u32 to funcMapBuf
WriteFuncMap(fm, addr) == fm \o LE32(addr)

\* code.go:126-141
RECURSIVE genImports(_, _, _)
genImports(c, fm, im) ==
    IF im > NumImports THEN [code |-> c, funcMap |-> fm]
    ELSE With(genImportEntry(c, im), LAMBDA r :
            With([r.code EXCEPT !.links[im].Address = r.addr], LAMBDA c1 :
                genImports(c1, WriteFuncMap(fm, r.addr), im + 1)))

-----------------------------------------------------------------------------
(* Patching. *)

\* a store of bytes at an address of the text ("text") or of the read-only
\* data ("roData")
StoreOp(buf, addr, bytes) == [buf |-> buf, addr |-> addr, bytes |-> bytes]

\* atomicPutUint32 / atomic.PutUint32: one store of four bytes
AtomicPutUint32(buf, addr, v) == << StoreOp(buf, addr, LE32(v)) >>

\* binary.LittleEndian.PutUint32 on memory that is being read: the four bytes
\* are written by one store or by four
PutUint32(buf, addr, v, single) ==
    IF single THEN << StoreOp(buf, addr, LE32(v)) >>
    ELSE [i \in 1..4 |-> StoreOp(buf, addr + i - 1, <<LE32(v)[i]>>)]

\* the displacement written one byte early, over the opcode
RECURSIVE UpdateCallsEarly(_, _, _)
UpdateCallsEarly(sites, funcAddr, i) ==
    IF i > Len(sites) THEN <<>>
    ELSE AtomicPutUint32("text", sites[i] - 5, funcAddr - sites[i])
         \o UpdateCallsEarly(sites, funcAddr, i + 1)

\* ISA.UpdateCalls
RECURSIVE UpdateCallsFrom(_, _, _)
UpdateCallsFrom(sites, funcAddr, i) ==
    IF i > Len(sites) THEN <<>>
    ELSE AtomicPutUint32("text", sites[i] - 4, funcAddr - sites[i])
         \o UpdateCallsFrom(sites, funcAddr, i + 1)

UpdateCalls(l) == UpdateCallsFrom(l.Sites, l.Address, 1)

\* the effect of one store
ApplyStore(c, st) ==
    LET put(b) == [i \in 1..Len(b) |->
                    IF i > st.addr /\ i <= st.addr + Len(st.bytes)
                    THEN st.bytes[i - st.addr] ELSE b[i]]
    IN  IF st.buf = "text" THEN [c EXCEPT !.text = put(@)]
        ELSE [c EXCEPT !.roData = put(@)]

RECURSIVE ApplyStores(_, _)
ApplyStores(c, sts) ==
    IF sts = <<>> THEN c ELSE ApplyStores(ApplyStore(c, Head(sts)), Tail(sts))

\* code.go:199-202: the offset of the table entry
TableSlot(tableIndex) == roTableAddr + tableIndex * 8

RECURSIVE PatchTableFrom(_, _, _, _)
PatchTableFrom(indexes, invokeAddr, single, i) ==
    IF i > Len(indexes) THEN <<>>
    ELSE PutUint32("roData", TableSlot(indexes[i]), invokeAddr, single)
         \o PatchTableFrom(indexes, invokeAddr, single, i + 1)

\* the patch of the upper half of the entry
RECURSIVE ProgPatchTableHigh(_, _, _)
ProgPatchTableHigh(indexes, addr, i) ==
    IF i > Len(indexes) THEN <<>>
    ELSE AtomicPutUint32("text", TableAddr + indexes[i] * 8 + 4, addr)
         \o ProgPatchTableHigh(indexes, addr, i + 1)

\* program.go:168-171
RECURSIVE ProgPatchTableFrom(_, _, _)
ProgPatchTableFrom(indexes, addr, i) ==
    IF i > Len(indexes) THEN <<>>
    ELSE AtomicPutUint32("text", TableAddr + indexes[i] * 8, addr)
         \o ProgPatchTableFrom(indexes, addr, i + 1)

-----------------------------------------------------------------------------
(* The inputs. *)

SeqsUpTo(S, n) == UNION {[1..k -> S] : k \in 0..n}

\* what a call or a table element may name: the first import and the defined
\* functions
Targets(n) == {1} \cup (NumImports + 1)..(NumImports + n)

\* (call target (i32.const 1) ...), as many constants as the target takes
Call(target) ==
    <<"call", target, [i \in 1..NumArgs(target) |-> <<"i32.const", i>>]>>

\* bodies that are sequences of direct calls in statement position
Bodies(n) ==
    {[locals |-> l, result |-> Void,
      body |-> [i \in 1..Len(calls) |-> Call(calls[i])]] :
        l \in 0..MaxLocals, calls \in SeqsUpTo(Targets(n), MaxCalls)}

\* the inputs of Module.Code: the start function is a defined function
CodeModules(n) ==
    [driver : {"Code"},
     funcs : [1..n -> Bodies(n)],
     start : (NumImports + 1)..(NumImports + n),
     startDefined : {TRUE},
     table : SeqsUpTo(Targets(n), MaxTable),
     trigger : BOOLEAN,
     initFuncCount : {0}]

\* the inputs of GenProgram: a table element may name no function, the start
\* function is optional, initFuncCount counts the imports and the functions to
\* generate before the Init event.  What GenProgram does not read (the start
\* index without a start function, the count without an event handler) is
\* held at one value.
ProgModules(n) ==
    {m \in [driver : {"GenProgram"},
            funcs : [1..n -> Bodies(n)],
            start : (NumImports + 1)..(NumImports + n),
            startDefined : BOOLEAN,
            table : SeqsUpTo(Targets(n) \cup {NumImports + n + 1}, MaxTable),
            trigger : BOOLEAN,
            initFuncCount : NumImports..(NumImports + n)] :
        /\ ~m.startDefined => m.start = NumImports + 1
        /\ ~m.trigger => m.initFuncCount = NumImports}

Modules == UNION {CodeModules(n) \cup ProgModules(n) : n \in 1..MaxFuncs}

NotFired == [fired |-> FALSE]
Event(op, f) == [op |-> op, f |-> f]

\* genFunction's local variables before the function begins
NoFrame ==
    [mapAddr |-> 0, invokeAddr |-> 0, stackUsageAddr |-> 0,
     stackCheckEndAddr |-> 0, deadend |-> FALSE]

Init ==
    /\ module \in Modules
    /\ code = NewCoder(<<>>, <<>>)
    /\ funcMap = <<>>
    /\ funcIndex = 0
    /\ initFuncCount = module.initFuncCount
    /\ patchIndex = 0
    /\ pending = <<>>
    /\ pc = "begin"
    /\ events = <<>>
    /\ atTrigger = NotFired
    /\ run = 1
    /\ firstRun = <<>>
    /\ frame = NoFrame

-----------------------------------------------------------------------------
(* Module.Code *)

\* code.go:95-144
CodeBegin ==
    /\ pc = "begin"
    /\ module.driver = "Code"
    /\ LET c0 == AllocTable(NewCoder(code.text, code.roData))
           c1 == genTrapEntry(c0, MissingFunction)
           c2 == OpInitLink(c1, module.start)
           c3 == genTrapEntries(c2, Exit)
       IN  \E r \in {genImports(c3, <<>>, 1)} :
               /\ code' = r.code
               /\ funcMap' = r.funcMap
    /\ funcIndex' = 0
    /\ pc' = "genInitial"
    /\ UNCHANGED <<module, frame, initFuncCount, patchIndex, pending, events,
                   atTrigger, run, firstRun>>

\* the first loop without its break at the start function
CodeGenInitialNoBreak ==
    /\ pc = "genInitial"
    /\ funcIndex < NumFuncs
    /\ LET f == NumImports + funcIndex + 1
       IN  \E r \in {genFunction(code, f)} :
               /\ code' = ApplyStores(r.code, UpdateCalls(r.code.links[f]))
               /\ funcMap' = WriteFuncMap(funcMap, r.mapAddr)
               /\ events' = Append(events, Event("gen", f))
               /\ pc' = IF funcIndex + 1 >= NumFuncs THEN "seed"
                        ELSE "genInitial"
    /\ funcIndex' = funcIndex + 1
    /\ UNCHANGED <<module, frame, initFuncCount, patchIndex, pending, atTrigger, run,
                   firstRun>>

\* code.go:148-163, one iteration
CodeGenInitial ==
    /\ pc = "genInitial"
    /\ funcIndex < NumFuncs
    /\ LET f == NumImports + funcIndex + 1
       IN  \E r \in {genFunction(code, f)} :
               /\ code' = ApplyStores(r.code, UpdateCalls(r.code.links[f]))
               /\ funcMap' = WriteFuncMap(funcMap, r.mapAddr)
               /\ events' = Append(events, Event("gen", f))
               /\ pc' = IF f = module.start \/ funcIndex + 1 >= NumFuncs
                        THEN "seed" ELSE "genInitial"
    /\ funcIndex' = funcIndex + 1
    /\ UNCHANGED <<module, frame, initFuncCount, patchIndex, pending, atTrigger, run,
                   firstRun>>

\* code.go:165-176
RECURSIVE SeedTableFrom(_, _)
SeedTableFrom(c, i) ==
    IF i > Len(module.table) THEN c
    ELSE LET f == module.table[i]
             entry == LE64(SigIndex(f), c.links[f].Address)
             c1 == [c EXCEPT !.roData = [j \in 1..Len(@) |->
                        IF j > roTableAddr + (i - 1) * 8 /\ j <= roTableAddr + i * 8
                        THEN entry[j - roTableAddr - (i - 1) * 8] ELSE @[j]]]
         IN  SeedTableFrom(c1, i + 1)

CodeSeedTable ==
    /\ pc = "seed"
    /\ code' = SeedTableFrom(code, 1)
    /\ events' = Append(events, Event("seed", 0))
    /\ pc' = "trigger"
    /\ UNCHANGED <<module, frame, funcMap, funcIndex, initFuncCount, patchIndex,
                   pending, atTrigger, run, firstRun>>

\* the trigger closed only when a function remains to be generated
CodeTriggerIfRest ==
    /\ pc = "trigger"
    /\ IF module.trigger /\ funcIndex < NumFuncs
       THEN /\ events' = Append(events, Event("trigger", 0))
            /\ atTrigger' = [fired |-> TRUE, code |-> code]
       ELSE UNCHANGED <<events, atTrigger>>
    /\ patchIndex' = funcIndex
    /\ pc' = IF funcIndex < NumFuncs THEN "genRest" ELSE "return"
    /\ UNCHANGED <<module, frame, code, funcMap, funcIndex, initFuncCount, pending,
                   run, firstRun>>

\* code.go:178-182
CodeTrigger ==
    /\ pc = "trigger"
    /\ IF module.trigger
       THEN /\ events' = Append(events, Event("trigger", 0))
            /\ atTrigger' = [fired |-> TRUE, code |-> code]
       ELSE UNCHANGED <<events, atTrigger>>
    /\ patchIndex' = funcIndex
    /\ pc' = IF funcIndex < NumFuncs THEN "genRest" ELSE "return"
    /\ UNCHANGED <<module, frame, code, funcMap, funcIndex, initFuncCount, pending,
                   run, firstRun>>

\* code.go:183-189, one iteration
CodeGenRest ==
    /\ pc = "genRest"
    /\ LET f == NumImports + patchIndex + 1
       IN  \E r \in {genFunction(code, f)} :
               /\ code' = r.code
               /\ funcMap' = WriteFuncMap(funcMap, r.mapAddr)
               /\ events' = Append(events, Event("gen", f))
    /\ IF patchIndex + 1 < NumFuncs
       THEN /\ patchIndex' = patchIndex + 1
            /\ pc' = "genRest"
       ELSE /\ patchIndex' = funcIndex
            /\ pc' = "patch"
    /\ UNCHANGED <<module, frame, funcIndex, initFuncCount, pending, atTrigger, run,
                   firstRun>>

\* code.go:195-205, one iteration: the stores are issued one after the other
CodePatch ==
    /\ pc = "patch"
    /\ pending = <<>>
    /\ IF patchIndex < NumFuncs
       THEN LET f == NumImports + patchIndex + 1
                link == code.links[f]
            IN  /\ \E single \in BOOLEAN :
                       pending' = PatchTableFrom(TableIndexes(f), link.Address,
                                                 single, 1)
                                  \o UpdateCalls(link)
                /\ events' = Append(events, Event("patch", f))
                /\ patchIndex' = patchIndex + 1
                /\ pc' = "patch"
       ELSE /\ pc' = "return"
            /\ UNCHANGED <<pending, events, patchIndex>>
    /\ UNCHANGED <<module, frame, code, funcMap, funcIndex, initFuncCount, atTrigger,
                   run, firstRun>>

\* one store of a patch reaches memory
Store ==
    /\ pending # <<>>
    /\ code' = ApplyStore(code, Head(pending))
    /\ pending' = Tail(pending)
    /\ UNCHANGED <<module, frame, funcMap, funcIndex, initFuncCount, patchIndex, pc,
                   events, atTrigger, run, firstRun>>

\* what a compilation returns (code.go:212-216), with the history of its steps
Outputs ==
    [text |-> code.text, roData |-> code.roData, funcMap |-> funcMap,
     callMap |-> code.callMap, events |-> events]

Return ==
    /\ pc = "return"
    /\ pc' = "done"
    /\ firstRun' = IF run = 1 THEN Outputs ELSE firstRun
    /\ UNCHANGED <<module, frame, code, funcMap, funcIndex, initFuncCount, patchIndex,
                   pending, events, atTrigger, run>>

\* the same inputs and the same buffers are compiled again
Restart ==
    /\ pc = "done"
    /\ run = 1
    /\ run' = 2
    /\ pc' = "begin"
    /\ funcMap' = <<>>
    /\ funcIndex' = 0
    /\ initFuncCount' = module.initFuncCount
    /\ patchIndex' = 0
    /\ events' = <<>>
    /\ atTrigger' = NotFired
    /\ UNCHANGED <<module, frame, code, pending, firstRun>>

-----------------------------------------------------------------------------
(* GenProgram.  Functions are numbered from 0 with the imports first, as in *)
(* m.Funcs: function number i is callable i + 1.                            *)

\* asm.Resume and asm.InitCallEntry: fixed routines
resumeRoutine == <<49, 192>> \o ret
initCallEntry == <<255, 208>>

\* the masks of genCommons, from rodata.CommonsAddr to rodata.TableAddr
commons ==
    LE32(MaxInt32) \o LE32(0) \o LE32(-1) \o LE32(MaxInt32)
    \o LE32(-MaxInt32 - 1) \o LE32(0) \o LE32(0) \o LE32(-MaxInt32 - 1)
    \o LE32(1593835520) \o LE32(0) \o LE32(0) \o LE32(1138753536)

\* program.go:179-197
genCommons(c) ==
    LET c1 == Emit(c, Fill(CommonsAddr - TextLen(c), PaddingByte))
    IN  Emit(c1, commons \o Fill(Len(module.table) * 8, 0))

\* program.go:99-110
RECURSIVE progTrapEntries(_, _)
progTrapEntries(c, id) ==
    IF id >= NumTraps THEN c
    ELSE LET c1 == alignFunc(c)
         IN  progTrapEntries(
                 OpEnterTrapHandler([c1 EXCEPT !.trapEntries[id] = TextLen(c1)], id),
                 id + 1)

\* program.go:112-115
RECURSIVE progImports(_, _)
progImports(c, im) ==
    IF im > NumImports THEN c
    ELSE LET r == genImportEntry(c, im)
         IN  progImports([r.code EXCEPT !.links[im].Address = r.addr], im + 1)

\* program.go:79-86
progStartCall(c) ==
    IF module.startDefined
    THEN With(opMissingFunc(c, callRel), LAMBDA c1 :
            [AddSite(PutCallSite(c1, TextLen(c1), WordSize * 2),
                     module.start, TextLen(c1))
               EXCEPT !.callSites = Append(@,
                   [ret |-> TextLen(c1), callee |-> module.start])])
    ELSE c

\* program.go:34-119
ProgBegin ==
    /\ pc = "begin"
    /\ module.driver = "GenProgram"
    /\ LET site(c, offset) == PutCallSite(c, TextLen(c), offset)
           c0 == NewCoder(code.text, code.roData)
           c1 == OpEnterTrapHandler(c0, MissingFunction)
           c2 == Emit(alignFunc(c1), resumeRoutine)
           c4 == site(OpInit(c2), WordSize * 2)
           c5 == progStartCall(c4)
           c7 == site(Emit(c5, initCallEntry), WordSize)
           c8 == progTrapEntries(genCommons(c7), MissingFunction + 1)
       IN  code' = progImports(c8, 1)
    /\ initFuncCount' =
           IF ~module.trigger THEN NumCallables
           ELSE IF module.startDefined /\ module.start - 1 >= initFuncCount
                THEN module.start
                ELSE initFuncCount
    /\ funcIndex' = NumImports
    /\ pc' = "progGenInit"
    /\ UNCHANGED <<module, frame, funcMap, patchIndex, pending, events, atTrigger,
                   run, firstRun>>

\* program.go:121-124, one iteration
ProgGenInit ==
    /\ pc = "progGenInit"
    /\ IF funcIndex < initFuncCount
       THEN LET f == funcIndex + 1
            IN  \E r \in {genFunction(code, f)} :
                    /\ code' = ApplyStores(r.code, UpdateCalls(r.code.links[f]))
                    /\ events' = Append(events, Event("gen", f))
                    /\ funcIndex' = funcIndex + 1
                    /\ pc' = "progGenInit"
       ELSE /\ pc' = "progSeed"
            /\ UNCHANGED <<code, events, funcIndex>>
    /\ UNCHANGED <<module, frame, funcMap, initFuncCount, patchIndex, pending,
                   atTrigger, run, firstRun>>

\* link.FuncL.AddTableIndex
AddTableIndex(c, f, i) == [c EXCEPT !.links[f].TableIndexes = Append(@, i)]

\* program.go:126-151
RECURSIVE ProgSeedTableFrom(_, _)
ProgSeedTableFrom(c, i) ==
    IF i > Len(module.table) THEN c
    ELSE LET f == module.table[i]
             valid == f <= NumCallables
             funcAddr == IF valid THEN c.links[f].Address ELSE 0
             c1 == IF valid /\ funcAddr = 0 THEN AddTableIndex(c, f, i - 1) ELSE c
             sigIndex == IF valid THEN SigIndex(f) ELSE MaxInt32
             entry == LE64(sigIndex, funcAddr)
             c2 == [c1 EXCEPT !.text = [j \in 1..Len(@) |->
                        IF j > TableAddr + (i - 1) * 8 /\ j <= TableAddr + i * 8
                        THEN entry[j - TableAddr - (i - 1) * 8] ELSE @[j]]]
         IN  ProgSeedTableFrom(c2, i + 1)

ProgSeedTable ==
    /\ pc = "progSeed"
    /\ code' = ProgSeedTableFrom(code, 1)
    /\ events' = Append(events, Event("seed", 0))
    /\ pc' = IF initFuncCount < NumCallables THEN "progInit" ELSE "return"
    /\ UNCHANGED <<module, frame, funcMap, funcIndex, initFuncCount, patchIndex,
                   pending, atTrigger, run, firstRun>>

\* program.go:154, eventHandler(event.Init)
ProgEventInit ==
    /\ pc = "progInit"
    /\ events' = Append(events, Event("trigger", 0))
    /\ atTrigger' = [fired |-> TRUE, code |-> code]
    /\ patchIndex' = initFuncCount
    /\ pc' = "progGenRest"
    /\ UNCHANGED <<module, frame, code, funcMap, funcIndex, initFuncCount, pending,
                   run, firstRun>>

\* program.go:156-158, one iteration
ProgGenRest ==
    /\ pc = "progGenRest"
    /\ LET f == patchIndex + 1
       IN  /\ code' = genFunction(code, f).code
           /\ events' = Append(events, Event("gen", f))
    /\ patchIndex' = patchIndex + 1
    /\ pc' = IF patchIndex + 1 < NumCallables THEN "progGenRest" ELSE "progBarrier"
    /\ UNCHANGED <<module, frame, funcMap, funcIndex, initFuncCount, pending,
                   atTrigger, run, firstRun>>

\* program.go:160-162, eventHandler(event.FunctionBarrier)
ProgBarrier ==
    /\ pc = "progBarrier"
    /\ events' = Append(events, Event("barrier", 0))
    /\ patchIndex' = initFuncCount
    /\ pc' = "progPatch"
    /\ UNCHANGED <<module, frame, code, funcMap, funcIndex, initFuncCount, pending,
                   atTrigger, run, firstRun>>

\* program.go:164-174, one iteration
ProgPatch ==
    /\ pc = "progPatch"
    /\ pending = <<>>
    /\ IF patchIndex < NumCallables
       THEN LET ln == code.links[patchIndex + 1]
            IN  /\ pending' = ProgPatchTableFrom(ln.TableIndexes, ln.Address, 1)
                              \o UpdateCalls(ln)
                /\ events' = Append(events, Event("patch", patchIndex + 1))
                /\ patchIndex' = patchIndex + 1
                /\ pc' = "progPatch"
       ELSE /\ pc' = "return"
            /\ UNCHANGED <<pending, events, patchIndex>>
    /\ UNCHANGED <<module, frame, code, funcMap, funcIndex, initFuncCount, atTrigger,
                   run, firstRun>>

-----------------------------------------------------------------------------

Next ==
    \/ CodeBegin
    \/ CodeGenInitial
    \/ CodeSeedTable
    \/ CodeTrigger
    \/ CodeGenRest
    \/ CodePatch
    \/ ProgBegin
    \/ ProgGenInit
    \/ ProgSeedTable
    \/ ProgEventInit
    \/ ProgGenRest
    \/ ProgBarrier
    \/ ProgPatch
    \/ Store
    \/ Return

Spec == Init /\ [][Next]_vars

\* two compilations of the same inputs, one after the other
NextTwice ==
    \/ Next
    \/ Restart

SpecTwice == Init /\ [][NextTwice]_vars

-----------------------------------------------------------------------------
(* genFunction on its own: one function with a parameter and a local, its   *)
(* body an expression tree, generated in the steps of genFunction.          *)

\* the function under generation takes one i32 and has one i32 local
CoderFunc == NumImports + 2

Consts == {<<"i32.const", v>> : v \in 0..1}
Locals == {<<"get_local", i>> : i \in 0..1}
Leaves == Consts \cup Locals

BinaryNames ==
    {"i32.add", "i32.sub", "i32.mul", "i32.div_s", "i32.div_u", "i32.eq"}

Binary(names, A, B) == {<<op, a, b>> : op \in names, a \in A, b \in B}

\* values of a function whose result type is the given one: a call of the
\* function itself is a value when the function has a result
Calls(result) ==
    IF result = I32 THEN {<<"call", CoderFunc, <<a>>>> : a \in Leaves} ELSE {}

Inner(result) ==
    Binary({"i32.add", "i32.eq"}, Leaves, Leaves) \cup Calls(result)

Selects(result) ==
    {<<"select", a, b, cond>> :
        a \in {<<"i32.const", 1>>, <<"get_local", 0>>,
               <<"i32.add", <<"get_local", 0>>, <<"i32.const", 1>>>>},
        b \in {<<"i32.const", 0>>, <<"get_local", 1>>,
               <<"i32.add", <<"get_local", 1>>, <<"i32.const", 1>>>>},
        cond \in Leaves \cup Inner(result)}

Values(result) ==
    Leaves \cup Inner(result) \cup Binary(BinaryNames, Leaves, Leaves)
    \cup Binary({"i32.add", "i32.mul"}, Inner(result), Leaves)
    \cup Binary({"i32.add", "i32.sub"}, Leaves, Inner(result))
    \cup Selects(result)

\* statements that come first in a body
First ==
    {<<"set_local", 1, <<"get_local", 0>>>>,
     <<"set_local", 1, <<"i32.add", <<"get_local", 0>>, <<"i32.const", 1>>>>>>,
     <<"drop", <<"i32.add", <<"get_local", 0>>, <<"get_local", 1>>>>>>,
     <<"call", CoderFunc, <<<<"get_local", 0>>>>>>}

Simple(result) ==
    {<<"drop", v>> : v \in Values(result)}
    \cup {<<"set_local", i, v>> : i \in 0..1, v \in Values(result)}

Statements(result) ==
    Simple(result) \cup First
    \cup {<<"nop">>, <<"call", NumImports + 1, <<>>>>}
    \cup (IF result = Void THEN {<<"return">>, <<"br", 0>>}
          ELSE {<<"return", v>> : v \in Inner(result)}
               \cup {<<"br", 0, v>> : v \in Inner(result)})
    \cup {<<"block", Void, <<s, t>>>> :
            s \in First, t \in First \cup {<<"br", 0>>}}

\* a left operand that a call in the right operand sends to the stack, the
\* right operand folding to the constant 0
Folds(result) ==
    IF result = I32
    THEN {<<outer, <<"i32.add", x, <<"i32.const", 1>>>>,
            <<"i32.mul", <<"call", CoderFunc, <<<<"get_local", 0>>>>>>,
              <<"i32.const", 0>>>>>> :
            outer \in {"i32.add", "i32.mul"},
            x \in {<<"get_local", 0>>,
                   <<"i32.add", <<"i32.const", 0>>, <<"get_local", 0>>>>}}
    ELSE {}

FinalValues(result) ==
    Values(result) \cup Folds(result)
    \cup Binary({"i32.or", "i32.xor"}, Leaves, Leaves)
    \cup {<<"block", I32, <<s, v>>>> :
            s \in First \cup {<<"br", 0, <<"get_local", 0>>>>},
            v \in Leaves \cup {<<"i32.add", <<"get_local", 0>>,
                                 <<"i32.const", 1>>>>}}

\* branches out of a block that is not in final position, with and without an
\* operand on the stack, before a branch to the end of the function
Branches(result) ==
    IF result = Void
    THEN {<<<<"block", Void, <<s, <<"br", 0>>>>>>, t>> :
            s \in First, t \in {<<"nop">>, <<"br", 0>>}}
    ELSE {<<<<"drop", <<"i32.add", a, <<"block", I32, <<<<"br", 0, v>>>>>>>>>>,
            <<"br", 0, w>>>> :
            a \in {<<"get_local", 0>>,
                   <<"call", CoderFunc, <<<<"get_local", 0>>>>>>},
            v \in {<<"get_local", 1>>,
                   <<"call", CoderFunc, <<<<"get_local", 0>>>>>>},
            w \in Leaves}

\* conditional branches out of a block, with and without an operand that a
\* call in the condition sends to the stack
BranchIfs(result) ==
    LET conds == {<<"get_local", 0>>,
                  <<"i32.eq", <<"get_local", 0>>, <<"get_local", 1>>>>}
    IN  IF result = Void
        THEN {<<<<"block", Void, <<<<"br_if", 0, cond>>, s>>>>, <<"nop">>>> :
                cond \in conds, s \in First}
        ELSE {<<<<"drop", <<"i32.add", a,
                    <<"block", I32, <<<<"br_if", 0, <<"get_local", 1>>, cond>>,
                                      <<"get_local", 0>>>>>>>>>>,
                <<"get_local", 0>>>> :
                a \in {<<"get_local", 0>>,
                       <<"call", CoderFunc, <<<<"get_local", 0>>>>>>},
                cond \in conds
                    \cup {<<"i32.eq",
                            <<"call", CoderFunc, <<<<"get_local", 0>>>>>>,
                            <<"get_local", 0>>>>}}

\* branch tables: in a function without result out of one block to the block
\* and to the end of the function; in a function with a result out of an
\* inner block that begins with an operand on the stack and an operand in a
\* register, to the block and to the end of the function, also after a table
\* out of a block without operands
BranchTables(result) ==
    LET call == <<"call", CoderFunc, <<<<"get_local", 0>>>>>>
        nested(table) ==
            <<"i32.add", call,
                <<"i32.add", call, <<"block", I32, <<table>>>>>>>>
    IN  IF result = Void
        THEN {<<<<"block", Void, <<<<"br_table", idxs, d, cond>>>>>>,
                <<"nop">>>> :
                idxs \in {<<>>, <<0>>, <<0, 1>>, <<1>>}, d \in 0..1,
                cond \in {<<"get_local", 0>>,
                          <<"i32.add", <<"get_local", 0>>, <<"i32.const", 1>>>>,
                          <<"i32.eq", <<"get_local", 0>>, <<"get_local", 1>>>>}}
        ELSE {<<nested(<<"br_table", idxs, d, <<"get_local", 1>>, cond>>)>> :
                idxs \in {<<0>>, <<0, 0>>, <<0, 1>>, <<1, 0>>, <<1, 1, 0>>},
                d \in 0..1,
                cond \in {<<"get_local", 0>>, <<"i32.const", 1>>}}
             \cup
             {<<<<"block", Void,
                    <<<<"br_table", <<0, 0>>, 0, <<"get_local", 0>>>>>>>>,
                nested(<<"br_table", <<0, 1>>, d, <<"get_local", 1>>,
                         <<"get_local", 0>>>>)>> : d \in 0..1}

\* set_local under live references to its variable: the left operand of an
\* addition whose right operand is a block that sets the variable, with and
\* without a call before it; and the arms of a select whose condition is a
\* block that sets both variables while both are cached in registers
SetLocals(result) ==
    IF result = I32
    THEN {<<<<"i32.add", <<"get_local", 0>>,
              <<"block", I32, <<s, <<"set_local", 0, v>>,
                                <<"get_local", 1>>>>>>>>>> :
            s \in {<<"nop">>, <<"call", CoderFunc, <<<<"get_local", 1>>>>>>},
            v \in {<<"i32.const", 1>>, <<"get_local", 1>>}}
         \cup
         {<<<<"set_local", 1,
               <<"i32.add", <<"get_local", 0>>, <<"i32.const", 1>>>>>>,
            <<"select", <<"get_local", 0>>, <<"get_local", 1>>,
              <<"block", I32, <<<<"set_local", 1, v1>>, <<"set_local", 0, v0>>,
                                <<"get_local", 0>>>>>>>>>> :
            v1 \in {<<"get_local", 0>>, <<"i32.const", 1>>},
            v0 \in {<<"get_local", 1>>, <<"i32.const", 0>>}}
    ELSE {}

\* ifs with and without an else arm, the arms falling through, returning and
\* branching to the end of the if and of the function, in final position and
\* before another statement; blocks with children after a dead end
Ifs(result) ==
    LET conds == {<<"get_local", 0>>,
                  <<"i32.eq", <<"get_local", 0>>, <<"get_local", 1>>>>}
        call == <<"call", CoderFunc, <<<<"get_local", 0>>>>>>
        deads == {<<"return">>, <<"br", 0>>, <<"br", 1>>,
                  <<"br_table", <<0>>, 0, <<"get_local", 0>>>>}
    IN  IF result = Void
        THEN LET thens == {<<"then", <<"return">>>>, <<"then", <<"nop">>>>,
                           <<"br", 0>>, <<"br", 1>>,
                           <<"then", <<"br", 0>>, call>>}
                 elses == {<<"else", <<"nop">>>>, <<"else", <<"return">>>>,
                           <<"else", <<"br", 0>>>>, <<"else", call>>}
                 ifs == {<<"if", Void, cond, th>> :
                            cond \in conds, th \in thens}
                        \cup {<<"if", Void, cond, th, el>> :
                                cond \in conds, th \in thens, el \in elses}
                 blocks == {<<"block", Void, <<d, s>>>> :
                                d \in deads, s \in First}
             IN  {<<s>> : s \in ifs \cup blocks}
                 \cup {<<s, <<"nop">>>> : s \in ifs \cup blocks}
        ELSE LET ifs == {<<"if", I32, cond, th, el>> :
                            cond \in conds,
                            th \in {<<"then", <<"get_local", 1>>>>,
                                    <<"then", <<"br", 0, <<"get_local", 1>>>>>>,
                                    <<"then", <<"return", call>>>>},
                            el \in {<<"else", <<"i32.const", 1>>>>,
                                    <<"else", <<"return", <<"get_local", 0>>>>>>,
                                    <<"else", call>>}}
             IN  {<<s>> : s \in ifs}
                 \cup {<<<<"i32.add", a, s>>>> :
                        a \in {<<"get_local", 0>>, call}, s \in ifs}

\* loops: a conditional branch back to the start, a branch out of the loop
\* before the branch back, and a loop without an end; and a block whose last
\* child is a conditional branch to its end
Loops(result) ==
    LET conds == {<<"get_local", 0>>,
                  <<"i32.eq", <<"get_local", 0>>, <<"get_local", 1>>>>}
    IN  IF result = Void
        THEN {<<<<"loop", Void, <<s, <<"br_if", 0, cond>>>>>>, <<"nop">>>> :
                s \in First, cond \in conds}
             \cup {<<<<"loop", Void, <<<<"br_if", 1, cond>>, s,
                                       <<"br", 0>>>>>>, <<"nop">>>> :
                    s \in First, cond \in conds}
             \cup {<<<<"loop", Void, <<s, <<"br", 0>>>>>>>> : s \in First}
             \cup {<<<<"block", Void, <<s, <<"br_if", 0, cond>>>>>>,
                      <<"nop">>>> : s \in First, cond \in conds}
        ELSE {<<<<"loop", Void, <<<<"br_if", 1, cond>>,
                                  <<"set_local", 1, v>>, <<"br", 0>>>>>>,
                <<"get_local", 1>>>> :
                cond \in conds,
                v \in {<<"i32.add", <<"get_local", 1>>, <<"i32.const", 1>>>>,
                       <<"call", CoderFunc, <<<<"get_local", 1>>>>>>}}

\* indirect calls: the index is a constant, a variable, a computed value or
\* the result of a call, and the argument may set the variable of the index
CallIndirects(result) ==
    LET indexes == {<<"i32.const", 0>>, <<"get_local", 0>>,
                    <<"i32.add", <<"get_local", 0>>, <<"i32.const", 1>>>>,
                    <<"call", CoderFunc, <<<<"get_local", 1>>>>>>}
        args == {<<"get_local", 0>>, <<"get_local", 1>>,
                 <<"block", I32, <<<<"set_local", 0, <<"i32.const", 1>>>>,
                                   <<"get_local", 1>>>>>>}
        calls == {<<"call_indirect", CoderFunc, i, <<a>>>> :
                    i \in indexes, a \in args}
        before == {<<"nop">>, <<"set_local", 1, <<"get_local", 0>>>>}
    IN  IF result = Void
        THEN {<<b, x, <<"nop">>>> : b \in before, x \in calls}
        ELSE {<<b, x>> : b \in before, x \in calls}

\* calls after a select whose value is dropped
Leaks(result) ==
    LET leak == <<"drop", <<"select", <<"i32.const", 1>>, <<"i32.const", 0>>,
                            <<"i32.add", <<"get_local", 0>>,
                                         <<"i32.const", 1>>>>>>>>
        call == <<"call", CoderFunc, <<<<"get_local", 0>>>>>>
        indirect == <<"call_indirect", CoderFunc, <<"i32.const", 0>>,
                      <<<<"get_local", 0>>>>>>
    IN  IF result = Void
        THEN {<<leak, call>>, <<leak, indirect>>}
        ELSE {}

CoderBodies(result) ==
    LET finals == IF result = Void THEN Statements(result)
                  ELSE FinalValues(result)
        seconds == IF result = Void THEN Simple(result)
                   ELSE Values(result)
    IN  {<<s>> : s \in finals}
        \cup {<<s, t>> : s \in First, t \in seconds}
        \cup Branches(result)
        \cup BranchIfs(result)
        \cup BranchTables(result)
        \cup SetLocals(result)
        \cup Ifs(result)
        \cup Loops(result)
        \cup CallIndirects(result)
        \cup Leaks(result)

\* the inputs of genFunction: the function before the one under generation
\* is empty
CoderModule(result, body) ==
    [driver |-> "genFunction",
     funcs |-> <<[locals |-> 0, result |-> Void, body |-> <<>>],
                 [locals |-> 1, result |-> result, body |-> body]>>,
     start |-> CoderFunc,
     startDefined |-> TRUE,
     table |-> <<>>,
     trigger |-> FALSE,
     initFuncCount |-> 0]

CoderModules ==
    {CoderModule(Void, body) : body \in CoderBodies(Void)}
    \cup {CoderModule(I32, body) : body \in CoderBodies(I32)}

InitCoder ==
    /\ module \in CoderModules
    /\ code = NewCoder(<<>>, <<>>)
    /\ funcMap = <<>>
    /\ funcIndex = 0
    /\ initFuncCount = module.initFuncCount
    /\ patchIndex = 0
    /\ pending = <<>>
    /\ pc = "begin"
    /\ events = <<>>
    /\ atTrigger = NotFired
    /\ run = 1
    /\ firstRun = <<>>
    /\ frame = NoFrame

\* code.go:95-144, then genFunction 287-313
FuncBegin ==
    /\ pc = "begin"
    /\ module.driver = "genFunction"
    /\ \E c0 \in {AllocTable(NewCoder(code.text, code.roData))} :
       \E c1 \in {genTrapEntry(c0, MissingFunction)} :
       \E c2 \in {OpInitLink(c1, module.start)} :
       \E c3 \in {genTrapEntries(c2, Exit)} :
       \E r \in {genImports(c3, <<>>, 1)} :
       \E p \in {genFunctionBegin(r.code, CoderFunc)} :
               /\ code' = p.code
               /\ funcMap' = r.funcMap
               /\ frame' = [mapAddr |-> p.mapAddr,
                            invokeAddr |-> p.invokeAddr,
                            stackUsageAddr |-> p.stackUsageAddr,
                            stackCheckEndAddr |-> p.stackCheckEndAddr,
                            deadend |-> FALSE]
    /\ funcIndex' = 0
    /\ pc' = "funcBody"
    /\ UNCHANGED <<module, initFuncCount, patchIndex, pending, events,
                   atTrigger, run, firstRun>>

\* genFunction 317-336, one iteration
FuncChild ==
    /\ pc = "funcBody"
    /\ funcIndex < Len(Function(CoderFunc).body)
    /\ ~frame.deadend
    /\ \E r \in {genFunctionChild(code, funcIndex + 1)} :
           /\ code' = r.c
           /\ frame' = [frame EXCEPT !.deadend = r.deadend]
           /\ pc' = IF Ok(r.c) THEN "funcBody" ELSE "panic"
    /\ funcIndex' = funcIndex + 1
    /\ UNCHANGED <<module, funcMap, initFuncCount, patchIndex, pending,
                   events, atTrigger, run, firstRun>>

\* genFunction 338-408
FuncEnd ==
    /\ pc = "funcBody"
    /\ funcIndex >= Len(Function(CoderFunc).body) \/ frame.deadend
    /\ \E c \in {genFunctionEnd(code, CoderFunc, frame.deadend, frame)} :
           /\ code' = c
           /\ funcMap' = IF Ok(c) THEN WriteFuncMap(funcMap, frame.mapAddr)
                         ELSE funcMap
           /\ pc' = IF Ok(c) THEN "funcDone" ELSE "panic"
    /\ UNCHANGED <<module, funcIndex, initFuncCount, patchIndex, pending,
                   events, atTrigger, run, firstRun, frame>>

NextCoder ==
    \/ FuncBegin
    \/ FuncChild
    \/ FuncEnd

SpecCoder == InitCoder /\ [][NextCoder]_vars

-----------------------------------------------------------------------------
(* The indirect call: the instructions emitted for the checks and the call  *)
(* of call_indirect, and their execution on a table of packed entries.      *)

\* a 64-bit register as its two halves, each a signed 32-bit number
Reg64(hi, lo) == [hi |-> hi, lo |-> lo]

\* the address of the text at run time
TextBase == Reg64(16, 0)

\* a conditional jump whose displacement, counted in elements of the text, is
\* set when its label is bound
jccStub(c, mnemonic) == Insn(c, mnemonic, 0, "rel", 0)

\* updateLocalAddr, updateLocalBranches for one site: the jump that ends at
\* the site leads to the label
updateLocalAddr(c, site, labelAddr) ==
    IF labelAddr - site < -128 \/ labelAddr - site >= 128
    THEN Panic(c, "updateLocalAddr")
    ELSE IF Ok(c)
    THEN [c EXCEPT !.text[site] = <<@[1], @[2], @[3], labelAddr - site>>]
    ELSE c

\* ISA.OpCallIndirect: the table index is in the result register
OpCallIndirect(c, tableLen, sigIndex) ==
    With(jccStub(opCompareBounds(c, RegResult, tableLen), "jle"), LAMBDA c1 :
    With(jccStub(Insn(Insn(Insn(Insn(c1,
                "mov64", RegResult, "rodata", TableAddr),
                "mov32", RegScratch, "reg", RegResult),
                "shr64", RegResult, "imm", 32),
                "cmp32", RegResult, "imm", sigIndex), "je"), LAMBDA c2 :
    With(OpTrapCall(c2, IndirectCallSignature), LAMBDA c3 :
    With(OpTrapCall(updateLocalAddr(c3, TextLen(c1), TextLen(c3)),
                    IndirectCallIndex), LAMBDA c4 :
        Insn(Insn(updateLocalAddr(c4, TextLen(c2), TextLen(c4)),
                  "add64", RegScratch, "reg", RegTextBase),
             "call", RegScratch, "", 0)))))

\* exprCallIndirect 1289-1311: the table index is in the result register.
\* mach.OpBranchIfEqualImm32 is a compare with a conditional jump, and
\* mach.OpCallIndirect32 a call through the low 32 bits of its register
callIndirectChecks(c, tableLen, sigIndex) ==
    With(jccStub(opCompareBounds(c, RegResult, tableLen), "jle"), LAMBDA c1 :
    With(TryAllocReg(opStoreRegVars(
            Insn(c1, "mov64", RegResult, "rodata", roTableAddr), TRUE)),
         LAMBDA r :
        IF ~r.ok THEN Panic(r.c, "impossible situation")
        ELSE With(jccStub(Insn(Insn(Insn(r.c,
                    "mov64", r.reg, "reg", RegResult),
                    "shr64", r.reg, "imm", 32),
                    "cmp32", r.reg, "imm", sigIndex), "je"), LAMBDA c2 :
             With(OpCallTrap(FreeReg(c2, r.reg), IndirectCallSignature),
                  LAMBDA c3 :
             With(OpCallTrap(updateLocalAddr(c3, TextLen(c1), TextLen(c3)),
                             IndirectCallIndex), LAMBDA c4 :
                Insn(updateLocalAddr(c4, TextLen(c2), TextLen(c4)),
                     "call32", RegResult, "", 0))))))

\* a table entry as Module.Code and GenProgram leave it: the signature index
\* in the high 32 bits, the function address in the low 32 bits
PackedEntries(entries) ==
    LET RECURSIVE from(_)
        from(i) == IF i > Len(entries) THEN <<>>
                   ELSE LE64(entries[i].sig, entries[i].addr) \o from(i + 1)
    IN  from(1)

\* the inputs of an indirect call: the table, the index the program computed
\* as the signed reading of its 32 bits,
\* the signature index of the call site, and which of the two code
\* generators emits the call
IndirectModule(entries, index, sig, isa) ==
    [driver |-> "callIndirect",
     funcs |-> <<>>,
     start |-> 0,
     startDefined |-> FALSE,
     table |-> <<>>,
     trigger |-> FALSE,
     initFuncCount |-> 0,
     entries |-> entries,
     index |-> index,
     sig |-> sig,
     isa |-> isa]

TableEntry == [sig : 0..1, addr : {256, 272}]

IndirectModules ==
    {IndirectModule(entries, index, sig, isa) :
        entries \in {<<>>} \cup {<<e>> : e \in TableEntry}
                    \cup {<<e, f>> : e \in TableEntry, f \in TableEntry},
        index \in {0, 1, 2, 3, -2147483647 - 1, -1},
        sig \in 0..1,
        isa \in BOOLEAN}

InitIndirect ==
    /\ module \in IndirectModules
    /\ code = NewCoder(<<>>, <<>>)
    /\ funcMap = <<>>
    /\ funcIndex = 0
    /\ initFuncCount = 0
    /\ patchIndex = 0
    /\ pending = <<>>
    /\ pc = "begin"
    /\ events = <<>>
    /\ atTrigger = NotFired
    /\ run = 1
    /\ firstRun = <<>>
    /\ frame = NoFrame

\* the processor before the first instruction of the checks: the index is in
\* the result register
Cpu(ip, index) ==
    [ip |-> ip,
     regs |-> [r \in 0..15 |-> IF r = RegResult THEN Reg64(0, index)
                               ELSE IF r = RegTextBase THEN TextBase
                               ELSE Reg64(0, 0)],
     less |-> FALSE, equal |-> FALSE]

\* the trap entries and the table are in place; the checks and the call are
\* emitted
IndirectBegin ==
    /\ pc = "begin"
    /\ module.driver = "callIndirect"
    /\ LET base == IF module.isa THEN TableAddr ELSE roTableAddr
           c0 == [NewCoder(code.text, code.roData) EXCEPT
                    !.roData = Fill(base, 0) \o PackedEntries(module.entries)]
           c1 == genTrapEntries(genTrapEntry(c0, MissingFunction), Exit)
       IN  /\ code' = IF module.isa
                      THEN OpCallIndirect(c1, Len(module.entries), module.sig)
                      ELSE callIndirectChecks(c1, Len(module.entries),
                                              module.sig)
           /\ frame' = Cpu(TextLen(c1), module.index)
    /\ pc' = "exec"
    /\ UNCHANGED <<module, funcMap, funcIndex, initFuncCount, patchIndex,
                   pending, events, atTrigger, run, firstRun>>

\* a call of a trap entry starts at the address: the call map has its return
\* address
IsCallAt(c, ip) ==
    \E k \in 1..(Len(c.callMap) \div 8) :
        Get32(c.callMap, (k - 1) * 8) = ip + insnAddr32size(callRel)

\* the trap whose entry is at the address
TrapAt(c, addr) == CHOOSE id \in 0..(NumTraps - 1) : c.trapEntries[id] = addr

\* the processor after the symbolic instruction
ExecInsn(cpu, insn, roData) ==
    LET op == insn[1]
        r == insn[2]
        v == IF insn[3] = "reg" THEN cpu.regs[insn[4]] ELSE Reg64(0, insn[4])
        next == [cpu EXCEPT !.ip = @ + 1]
        index == cpu.regs[r]
        entryAddr == insn[4] + 8 * index.lo
    IN  CASE op = "mov32" -> [next EXCEPT !.regs[r] = Reg64(0, v.lo)]
          [] op = "mov64" /\ insn[3] = "reg" -> [next EXCEPT !.regs[r] = v]
          [] op = "mov64" /\ insn[3] = "rodata" ->
                [next EXCEPT !.regs[r] =
                    IF index.hi = 0 /\ index.lo >= 0
                        /\ entryAddr + 8 <= Len(roData)
                    THEN Reg64(Get32(roData, entryAddr + 4),
                               Get32(roData, entryAddr))
                    ELSE Reg64(0, 0)]
          [] op = "test32" ->
                [next EXCEPT !.less = v.lo < 0, !.equal = v.lo = 0]
          [] op = "cmp32" ->
                [next EXCEPT !.less = cpu.regs[r].lo < v.lo,
                             !.equal = cpu.regs[r].lo = v.lo]
          [] op = "cmovl32" ->
                [next EXCEPT !.regs[r] =
                    Reg64(0, IF cpu.less THEN v.lo ELSE @.lo)]
          [] op = "shr64" -> [next EXCEPT !.regs[r] = Reg64(0, @.hi)]
          [] op = "add64" ->
                [next EXCEPT !.regs[r] = Reg64(@.hi + v.hi, @.lo + v.lo)]
          [] op = "jle" ->
                [next EXCEPT !.ip = IF cpu.less \/ cpu.equal
                                    THEN @ + insn[4] ELSE @]
          [] op = "je" ->
                [next EXCEPT !.ip = IF cpu.equal THEN @ + insn[4] ELSE @]
          [] OTHER -> cpu

\* what the instruction does that the program's environment sees: a load
\* from the table and a call, with the text address it leads to
Effect(cpu, insn) ==
    CASE insn[1] = "mov64" /\ insn[3] = "rodata" ->
            <<Event("load", cpu.regs[insn[2]])>>
      [] insn[1] = "call" ->
            <<Event("call", Reg64(cpu.regs[insn[2]].hi - TextBase.hi,
                                  cpu.regs[insn[2]].lo - TextBase.lo))>>
      [] insn[1] = "call32" ->
            <<Event("call", Reg64(0, cpu.regs[insn[2]].lo))>>
      [] OTHER -> <<>>

\* one instruction is executed; a call ends the execution
Exec ==
    /\ pc = "exec"
    /\ frame.ip < TextLen(code)
    /\ IF IsCallAt(code, frame.ip)
       THEN /\ events' = Append(events,
                Event("trap", TrapAt(code, frame.ip + insnAddr32size(callRel)
                                + Get32(code.text, frame.ip + 1))))
            /\ pc' = "halt"
            /\ frame' = frame
       ELSE \E insn \in {code.text[frame.ip + 1]} :
            /\ events' = events \o Effect(frame, insn)
            /\ pc' = IF insn[1] \in {"call", "call32"} THEN "halt" ELSE "exec"
            /\ frame' = ExecInsn(frame, insn, code.roData)
    /\ UNCHANGED <<module, code, funcMap, funcIndex, initFuncCount,
                   patchIndex, pending, atTrigger, run, firstRun>>

NextIndirect ==
    \/ IndirectBegin
    \/ Exec

SpecIndirect == InitIndirect /\ [][NextIndirect]_vars

-----------------------------------------------------------------------------
(* The layout of the text by GenProgram, program.go:58-115, for routines of *)
(* the macro-assembler of any length.                                       *)

TextAddrNoFunction == 0     \* abi.TextAddrNoFunction
TextAddrResume == 16        \* abi.TextAddrResume
TextAddrStart == 32         \* abi.TextAddrStart
TextAddrEnter == 48         \* abi.TextAddrEnter
MaxRoutine == 17            \* the longest routine of the macro-assembler

\* a routine of the macro-assembler of n bytes
Routine(c, n) == Emit(c, Fill(n, 144))

\* asm.InitCallEntry: nop instructions until the text address is aligned,
\* then the call of the entry function
InitCallEntry(c, n) == Routine(Align(c, FuncAlignment, 144), n)

\* the lengths of asm.JumpToTrapHandler, asm.Resume, asm.Init and
\* asm.InitCallEntry, and whether the module has a start function
LayoutModule(trapLen, resumeLen, initLen, entryLen, startDefined) ==
    [driver |-> "layout",
     funcs |-> <<[locals |-> 0, result |-> Void, body |-> <<>>]>>,
     start |-> NumImports + 1,
     startDefined |-> startDefined,
     table |-> <<NumImports + 1>>,
     trigger |-> FALSE,
     initFuncCount |-> 0,
     trapLen |-> trapLen,
     resumeLen |-> resumeLen,
     initLen |-> initLen,
     entryLen |-> entryLen]

LayoutModules ==
    {LayoutModule(trapLen, resumeLen, initLen, entryLen, startDefined) :
        trapLen \in {0, 1, 11, 16, MaxRoutine},
        resumeLen \in {0, 1, 3, 16, MaxRoutine},
        initLen \in 0..MaxRoutine,
        entryLen \in {2, 16},
        startDefined \in BOOLEAN}

InitLayout ==
    /\ module \in LayoutModules
    /\ code = NewCoder(<<>>, <<>>)
    /\ funcMap = <<>>
    /\ funcIndex = 0
    /\ initFuncCount = 0
    /\ patchIndex = 0
    /\ pending = <<>>
    /\ pc = "begin"
    /\ events = <<>>
    /\ atTrigger = NotFired
    /\ run = 1
    /\ firstRun = <<>>
    /\ frame = NoFrame

\* one step of the layout: the check of the text address, then the code
\* that follows it; events is the history of where each part begins
LayoutStep(at, bad, msg, part, begin, c, to) ==
    /\ pc = at
    /\ module.driver = "layout"
    /\ IF bad
       THEN /\ code' = Panic(code, msg)
            /\ pc' = "panic"
            /\ events' = events
       ELSE /\ code' = c
            /\ pc' = to
            /\ events' = Append(events, Event(part, begin))
    /\ UNCHANGED <<module, frame, funcMap, funcIndex, initFuncCount,
                   patchIndex, pending, atTrigger, run, firstRun>>

\* program.go:58-61
LayoutTrap ==
    LayoutStep("begin", TextLen(NewCoder(code.text, code.roData))
                            # TextAddrNoFunction,
               "unexpected initial text address", "trap", 0,
               Routine(NewCoder(code.text, code.roData), module.trapLen),
               "resume")

\* program.go:63-67
LayoutResume ==
    LayoutStep("resume", TextLen(code) = TextAddrNoFunction
                            \/ TextLen(code) > TextAddrResume,
               "bad text address after NoFunction trap handler",
               "resume", TextLen(alignFunc(code)),
               Routine(alignFunc(code), module.resumeLen), "init")

\* program.go:69-86
LayoutInit ==
    LayoutStep("init", TextLen(code) <= TextAddrResume
                            \/ TextLen(code) > TextAddrStart,
               "bad text address after resume routine",
               "init", TextLen(alignFunc(code)),
               progStartCall(
                   PutCallSite(Routine(alignFunc(code), module.initLen),
                               TextLen(alignFunc(code)) + module.initLen,
                               WordSize * 2)),
               "entry")

\* program.go:88-92
LayoutEntry ==
    LayoutStep("entry", TextLen(code) <= TextAddrStart
                            \/ TextLen(code) > TextAddrEnter,
               "bad text address after init routine and start function call",
               "entry", TextLen(Align(code, FuncAlignment, 144)),
               With(InitCallEntry(code, module.entryLen), LAMBDA c :
                    PutCallSite(c, TextLen(c), WordSize)),
               "commons")

\* program.go:94-115
LayoutRest ==
    LayoutStep("commons", TextLen(code) > CommonsAddr,
               "bad text address after init routines",
               "commons", CommonsAddr,
               progImports(progTrapEntries(genCommons(code),
                                           MissingFunction + 1), 1),
               "laidOut")

NextLayout ==
    \/ LayoutTrap
    \/ LayoutResume
    \/ LayoutInit
    \/ LayoutEntry
    \/ LayoutRest

SpecLayout == InitLayout /\ [][NextLayout]_vars

-----------------------------------------------------------------------------
(* What the claims speak of. *)

Fired == atTrigger.fired
AtTrigger == atTrigger.code

\* the callables generated before the trigger are those numbered up to here
Boundary == IF module.driver = "Code" THEN module.start ELSE initFuncCount

Callees(f) ==
    IF f \in Functions
    THEN {Function(f).body[i][2] : i \in 1..Len(Function(f).body)}
    ELSE {}

RECURSIVE Reach(_)
Reach(S) ==
    LET T == S \cup UNION {Callees(f) : f \in S}
    IN  IF T = S THEN S ELSE Reach(T)

ReachableFromStart == Reach({module.start})

\* the function table of a coder: read-only data of Module.Code, part of the
\* text of GenProgram
TableBytes(c) ==
    IF module.driver = "Code" THEN c.roData
    ELSE SubSeq(c.text, TableAddr + 1, TableAddr + Len(module.table) * 8)

TableEntries == 1..Len(module.table)
ValidEntry(i) == module.table[i] <= NumCallables
AddrHalf(c, i) == Get32(TableBytes(c), (i - 1) * 8)
SigHalf(c, i) == Get32(TableBytes(c), (i - 1) * 8 + 4)
CallTarget(c, site) == site.ret + Get32(c.text, site.ret - 4)

EventsOf(op) == {k \in 1..Len(events) : events[k].op = op}
Seeded == EventsOf("seed") # {}

-----------------------------------------------------------------------------
(* C1 *)

\* C1, as stated: when the trigger fires, the start function and every
\* function it reaches through direct calls has its final, non-zero address.
C1_ReachableGenerated ==
    (Fired /\ module.startDefined) =>
        \A f \in ReachableFromStart :
            /\ AtTrigger.links[f].Address # 0
            /\ code.links[f].Address = AtTrigger.links[f].Address

\* C1, amended: when the trigger fires, exactly the imports and the functions
\* up to the start function in module order (GenProgram: the first
\* initFuncCount, the start function among them) have their final, non-zero
\* address; a function after them has none, also when the start function
\* calls it.
C1_GeneratedUpToStart ==
    Fired =>
        /\ module.startDefined => module.start <= Boundary
        /\ \A c \in Callables :
               IF c <= Boundary
               THEN /\ AtTrigger.links[c].Address # 0
                    /\ code.links[c].Address = AtTrigger.links[c].Address
               ELSE AtTrigger.links[c].Address = 0

\* the trigger has fired and the start function reaches a function that has
\* no address at that moment
C1_Witness ==
    /\ Fired
    /\ module.startDefined
    /\ \E f \in ReachableFromStart : AtTrigger.links[f].Address = 0

-----------------------------------------------------------------------------
(* C2 *)

\* C2, as stated: after the trigger has fired, a table entry's address half
\* and a direct call site's target is 0 or the final address of its function;
\* at the trigger it is the final address for what was generated before.
C2_ZeroOrFinal ==
    Fired =>
        /\ \A i \in TableEntries : ValidEntry(i) =>
               /\ AddrHalf(code, i) \in {0, code.links[module.table[i]].Address}
               /\ AddrHalf(AtTrigger, i) = AtTrigger.links[module.table[i]].Address
        /\ \A k \in 1..Len(code.callSites) :
               CallTarget(code, code.callSites[k])
                   \in {0, code.links[code.callSites[k].callee].Address}
        /\ \A k \in 1..Len(AtTrigger.callSites) :
               CallTarget(AtTrigger, AtTrigger.callSites[k])
                   = AtTrigger.links[AtTrigger.callSites[k].callee].Address

\* a table entry is being patched after the trigger
C2_Witness ==
    /\ Fired
    /\ \E i \in 1..Len(pending) : pending[i].buf = "roData"

-----------------------------------------------------------------------------
(* C3 *)

\* C3: at completion a table entry holds the signature index and the final
\* address of its function (an element that names no function: MaxInt32 and
\* 0); the signature half is the seeded one from seeding on.
C3_TableFinal ==
    /\ Seeded =>
           \A i \in TableEntries :
               SigHalf(code, i) = IF ValidEntry(i) THEN SigIndex(module.table[i])
                                  ELSE MaxInt32
    /\ pc = "done" =>
           \A i \in TableEntries :
               IF ValidEntry(i)
               THEN /\ code.links[module.table[i]].Address # 0
                    /\ AddrHalf(code, i) = code.links[module.table[i]].Address
               ELSE AddrHalf(code, i) = 0

\* a compilation is complete whose table names a function generated after the
\* trigger
C3_Witness ==
    /\ pc = "done"
    /\ Fired
    /\ \E i \in TableEntries : ValidEntry(i) /\ module.table[i] > Boundary

-----------------------------------------------------------------------------
(* C4 *)

\* the bytes of the displacement of a call site emitted before the trigger
\* whose callee had no address then
InPatchableCallField(a) ==
    \E k \in 1..Len(AtTrigger.callSites) :
        LET site == AtTrigger.callSites[k]
        IN  /\ AtTrigger.links[site.callee].Address = 0
            /\ a >= site.ret - 4
            /\ a < site.ret

\* the bytes of the address half of a table entry, as offsets into the table
InAddrHalf(a) == a % 8 < 4

IsPrefix(p, q) == Len(p) <= Len(q) /\ SubSeq(q, 1, Len(p)) = p

\* C4: after the trigger has fired, a byte of text or read-only data that
\* existed then has its value of then, unless it belongs to the displacement
\* of a call site whose callee is generated after the trigger or to the
\* address half of a table entry; the maps only grow.
C4_Frame ==
    Fired =>
        /\ IsPrefix(AtTrigger.callMap, code.callMap)
        /\ Len(AtTrigger.text) <= Len(code.text)
        /\ Len(AtTrigger.roData) <= Len(code.roData)
        /\ \A a \in 0..(Len(AtTrigger.text) - 1) :
               \/ code.text[a + 1] = AtTrigger.text[a + 1]
               \/ InPatchableCallField(a)
               \/ /\ module.driver = "GenProgram"
                  /\ a >= TableAddr
                  /\ a < TableAddr + Len(module.table) * 8
                  /\ InAddrHalf(a - TableAddr)
        /\ \A a \in 0..(Len(AtTrigger.roData) - 1) :
               \/ code.roData[a + 1] = AtTrigger.roData[a + 1]
               \/ InAddrHalf(a - roTableAddr)

\* a compilation is complete that patched a call site and a table entry after
\* the trigger
C4_Witness ==
    /\ Fired
    /\ pc = "done"
    /\ \E a \in 1..Len(AtTrigger.text) : code.text[a] # AtTrigger.text[a]
    /\ \E i \in TableEntries : AddrHalf(code, i) # AddrHalf(AtTrigger, i)

-----------------------------------------------------------------------------
(* C5 *)

\* C5, as stated: a patch after the trigger is one store of four bytes at an
\* offset that is a multiple of four, and what it patches holds the value it
\* had at the trigger or the final one.
C5_SingleAlignedStores ==
    /\ \A i \in 1..Len(pending) :
           /\ Len(pending[i].bytes) = 4
           /\ pending[i].addr % 4 = 0
    /\ Fired =>
           \A i \in TableEntries : ValidEntry(i) =>
               AddrHalf(code, i) \in {AddrHalf(AtTrigger, i),
                                      code.links[module.table[i]].Address}

\* a call site is being patched after the trigger
C5_Witness ==
    /\ Fired
    /\ \E i \in 1..Len(pending) : pending[i].buf = "text"

-----------------------------------------------------------------------------
(* C6 *)

TriggerEvents == EventsOf("trigger")
GenEvents == EventsOf("gen")

\* C6, as stated: with a trigger or event handler supplied, a complete
\* compilation has fired the trigger exactly once, after the seeding of the
\* table and before the generation of any function that follows the start
\* function.
C6_ExactlyOnce ==
    module.trigger =>
        /\ Cardinality(TriggerEvents) <= 1
        /\ pc = "done" => Cardinality(TriggerEvents) = 1
        /\ \A k \in TriggerEvents : \E j \in EventsOf("seed") : j < k
        /\ module.startDefined =>
               \A j \in GenEvents : events[j].f > module.start =>
                   \E k \in TriggerEvents : k < j

\* C6, amended: Module.Code closes the trigger exactly once, also when no
\* function follows the start function.  GenProgram hands the Init event to the
\* handler at most once, and only when a function remains after the first
\* initFuncCount ones (as raised to include the start function); the functions
\* among these that follow the start function are generated before the event.
\* In both, the trigger comes after the seeding, after the generation of every
\* function up to the boundary and before that of every function beyond it.
C6_OnceWhenFunctionsRemain ==
    module.trigger =>
        /\ Cardinality(TriggerEvents) <= 1
        /\ pc = "done" =>
               Cardinality(TriggerEvents) =
                   IF module.driver = "Code" \/ Boundary < NumCallables
                   THEN 1 ELSE 0
        /\ \A k \in TriggerEvents : \E j \in EventsOf("seed") : j < k
        /\ \A j \in GenEvents :
               IF events[j].f > Boundary
               THEN \E k \in TriggerEvents : k < j
               ELSE \A k \in TriggerEvents : j < k

\* GenProgram has completed with an event handler and a start function, and
\* the handler has not seen the Init event
C6_Witness ==
    /\ pc = "done"
    /\ module.driver = "GenProgram"
    /\ module.trigger
    /\ module.startDefined
    /\ TriggerEvents = {}
    /\ GenEvents # {}

-----------------------------------------------------------------------------
(* C7 *)

\* the panics of the checks at the end of genFunction, code.go:349-372
EndPanics ==
    {"variable reference count is non-zero at end of function",
     "registers not freed at end of function",
     "live operands exist at end of function",
     "branch target stack is not empty at end of function"}

\* C7: for every function that genFunction generates from a type-correct
\* body, at the end of the function every variable's reference count is
\* zero, no live operand and no branch target is left and no register of
\* either pool is allocated: none of the checks at the end of the function
\* panics.
C7_EndChecksPass ==
    /\ code.panic \notin EndPanics
    /\ pc = "funcDone" =>
        /\ \A i \in 1..Len(code.vars) : code.vars[i].refCount = 0
        /\ code.liveOperands = <<>>
        /\ code.targetStack = <<>>
        /\ code.regsInt = {}
        /\ code.regsFloat = {}

-----------------------------------------------------------------------------
(* C8 *)

CallMapRecord(k) == SubSeq(code.callMap, 8 * (k - 1) + 1, 8 * k)

\* the records GenProgram writes for its entry routines precede those of the
\* function bodies
EntryRecords == Len(code.callMap) \div 8 - Len(code.siteOffsets)

\* C8, as stated: a record of the call-site map is the return address and the
\* virtual stack offset at the call, as two little-endian 32-bit words.
C8_DepthIsStackOffset ==
    /\ Len(code.callMap) % 8 = 0
    /\ \A k \in 1..Len(code.siteOffsets) :
           CallMapRecord(EntryRecords + k)
               = LE32(code.siteOffsets[k].ret) \o LE32(code.siteOffsets[k].offset)

\* C8, amended: the recorded depth is the virtual stack offset at the call
\* plus one word, the return address that the call pushes.
C8_DepthIncludesLink ==
    /\ Len(code.callMap) % 8 = 0
    /\ \A k \in 1..Len(code.siteOffsets) :
           CallMapRecord(EntryRecords + k)
               = LE32(code.siteOffsets[k].ret)
                 \o LE32(code.siteOffsets[k].offset + WordSize)

\* a compilation is complete that recorded a call made with values on the
\* stack
C8_Witness ==
    /\ pc = "done"
    /\ \E k \in 1..Len(code.siteOffsets) : code.siteOffsets[k].offset > 0

-----------------------------------------------------------------------------
(* C9 *)

MapEntry(c) == Get32(funcMap, 4 * (c - 1))

\* C9: the function map of a complete Module.Code holds one 32-bit offset for
\* each import and then one for each defined function, in module order: the
\* entry of an import is its address, the entry of a function is where its
\* code starts, at most an alignment gap and a deleted prologue before its
\* address, and the entries increase.  While compiling, the map holds one entry
\* for each callable that has an address.
C9_FuncMapInOrder ==
    module.driver = "Code" =>
        /\ pc \notin {"begin"} =>
               Len(funcMap) = 4 * Cardinality({c \in Callables :
                                                  code.links[c].Address # 0})
        /\ pc = "done" =>
               /\ Len(funcMap) = 4 * NumCallables
               /\ \A c \in Imports : MapEntry(c) = code.links[c].Address
               /\ \A f \in Functions :
                      /\ MapEntry(f) <= code.links[f].Address
                      /\ code.links[f].Address < MapEntry(f) + 2 * FuncAlignment
               /\ \A c \in 1..(NumCallables - 1) : MapEntry(c) < MapEntry(c + 1)

\* Module.Code is complete and has generated a function after the trigger
C9_Witness ==
    /\ pc = "done"
    /\ module.driver = "Code"
    /\ Fired
    /\ module.start < NumCallables

-----------------------------------------------------------------------------
(* C10 *)

-----------------------------------------------------------------------------
(* C11 *)

ResultPanics ==
    {"result operand is on the stack", "expression does not yield value",
     "expression type and result differ"}

\* C11: no expression of a type-correct body ends in one of the panics that
\* coder.expr raises when the operand it is about to return is on the stack,
\* is missing, or does not match the expected type
C11_ResultConsistent == code.panic \notin ResultPanics

-----------------------------------------------------------------------------
(* C12 *)

\* the registers held by operands: those handed out and not a variable's cache
TempRegs(c) ==
    c.regsInt \ {c.vars[i].cache.Reg :
                    i \in {j \in DOMAIN c.vars :
                              c.vars[j].cache.Storage = "VarReg"}}

\* the virtual stack offset above the locals pushed so far
TempOffset(c) == c.stackOffset - c.pushedLocals * WordSize

\* the child of the function body that the last step lowered
LoweredChild == Function(CoderFunc).body[funcIndex']

\* C12: every step that lowers (drop e) succeeds and leaves the registers held
\* by operands and the virtual stack offset above the pushed locals as they
\* were before it
C12_DropNeutral ==
    [][(pc = "funcBody" /\ funcIndex' = funcIndex + 1
            /\ LoweredChild[1] = "drop")
        => /\ Ok(code')
           /\ TempRegs(code') = TempRegs(code)
           /\ TempOffset(code') = TempOffset(code)]_vars

-----------------------------------------------------------------------------
(* C13 *)

IsZero(x) == x.Storage = "Imm" /\ x.Value = 0

\* the call yielded the operand and neither called mach.BinaryOp nor emitted
Yields(h, x) == h.result = x /\ ~h.called /\ h.emitted = <<>>

\* x+0, x|0, x^0 and x-0 yield x
RightZeroFolds(h) ==
    (h.op \in {"add", "or", "sub", "xor"} /\ IsZero(h.b)) => Yields(h, h.a)

\* the original statement: x*0 yields the immediate 0, x+0, x|0, x^0 and x-0
\* yield x, and 0+x, 0|x and 0^x yield x, in each case without a call of the
\* macro-assembler and without emitting anything
C13_FoldsAlways ==
    \A k \in 1..Len(code.folds) :
        LET h == code.folds[k]
        IN  /\ (h.op = "mul" /\ IsZero(h.b)) => Yields(h, ImmOperand(0))
            /\ RightZeroFolds(h)
            /\ (h.op \in {"add", "or", "xor"} /\ IsZero(h.a))
                    => Yields(h, h.b)

\* C13: in exprBinaryOp x*0 yields the immediate 0 without a call of
\* mach.BinaryOp, and nothing is emitted but the stack-pointer add that
\* discards an x on the machine stack; x+0, x|0, x^0 and x-0 yield x itself
\* without any emission; for add, or and xor the same holds with the constant
\* 0 on the left when the right operand is not an immediate
C13_Folds ==
    \A k \in 1..Len(code.folds) :
        LET h == code.folds[k]
        IN  /\ (h.op = "mul" /\ IsZero(h.b))
                    => /\ h.result = ImmOperand(0)
                       /\ ~h.called
                       /\ h.emitted = IF h.a.Storage = "Stack"
                                      THEN <<72, 131, 196, WordSize>>
                                      ELSE <<>>
            /\ RightZeroFolds(h)
            /\ (h.op \in {"add", "or", "xor"} /\ IsZero(h.a)
                    /\ h.b.Storage # "Imm")
                    => Yields(h, h.b)

\* two of the folds have happened: 0+x of a variable x, and x*0 with x on the
\* machine stack
C13_Witness ==
    /\ \E k \in 1..Len(code.folds) :
            /\ code.folds[k].op = "add"
            /\ IsZero(code.folds[k].a)
            /\ code.folds[k].result.Storage = "Var"
    /\ \E k \in 1..Len(code.folds) :
            /\ code.folds[k].op = "mul"
            /\ IsZero(code.folds[k].b)
            /\ code.folds[k].a.Storage = "Stack"

-----------------------------------------------------------------------------
(* C14 *)

\* the index is inside the table when its 32 bits are read as unsigned
InRange == module.index >= 0 /\ module.index < Len(module.entries)
Selected == module.entries[module.index + 1]
Loaded == Event("load", Reg64(0, module.index))

\* C14: when the code emitted for call_indirect has run, an index outside the
\* table has reached the IndirectCallIndex trap without a load from the table;
\* an index inside the table has loaded its entry and then either reached the
\* IndirectCallSignature trap, when the entry's high 32 bits differ from the
\* signature index of the call site, or called the address in the entry's low
\* 32 bits
C14_ChecksBeforeCall ==
    pc = "halt" =>
        events = IF ~InRange THEN <<Event("trap", IndirectCallIndex)>>
                 ELSE IF Selected.sig # module.sig
                 THEN <<Loaded, Event("trap", IndirectCallSignature)>>
                 ELSE <<Loaded, Event("call", Reg64(0, Selected.addr))>>

\* an indirect call through the second entry of a table has been executed
\* after a call with another signature index would have trapped
C14_Witness ==
    /\ pc = "halt"
    /\ Len(module.entries) = 2
    /\ module.entries[1].sig # module.sig
    /\ module.index = 1
    /\ Len(events) = 2
    /\ events[1].op = "load"
    /\ events[2].op = "call"
    /\ events = <<Loaded, Event("call", Reg64(0, module.entries[2].addr))>>

-----------------------------------------------------------------------------
(* C15 *)

\* the premise of the claim: the trap handler, the resume routine and the init
\* routine emit between 1 and 16 bytes each
RoutinesFit ==
    /\ module.trapLen \in 1..FuncAlignment
    /\ module.resumeLen \in 1..FuncAlignment
    /\ module.initLen \in 1..FuncAlignment

\* the call of the start function that follows the init routine
StartCallSize ==
    IF module.startDefined THEN insnAddr32size(callRel) ELSE 0

\* the parts laid out so far begin at their fixed addresses, in order
FixedLayout ==
    /\ \A k \in 1..Len(events) :
            events[k] = Event(<<"trap", "resume", "init", "entry",
                                "commons">>[k],
                              <<TextAddrNoFunction, TextAddrResume,
                                TextAddrStart, TextAddrEnter,
                                CommonsAddr>>[k])
    /\ pc = "laidOut" =>
            /\ Len(events) = 5
            /\ \A id \in (MissingFunction + 1)..(NumTraps - 1) :
                    /\ code.trapEntries[id] % FuncAlignment = 0
                    /\ code.trapEntries[id]
                            >= TableAddr + 8 * Len(module.table)
                    /\ id > MissingFunction + 1 =>
                            code.trapEntries[id] > code.trapEntries[id - 1]
            /\ \A im \in Imports :
                    /\ code.links[im].Address % FuncAlignment = 0
                    /\ code.links[im].Address
                            > code.trapEntries[NumTraps - 1]
                    /\ im > 1 => code.links[im].Address
                                    > code.links[im - 1].Address

\* the original statement: with routines of 1 to 16 bytes no layout check
\* fails and every part begins at its address
C15_LayoutChecksPass == RoutinesFit => (pc # "panic" /\ FixedLayout)

\* C15: GenProgram lays out the trap handler at 0, the resume routine at 16,
\* the init routine with the call of the start function at 32, the init-call
\* entry at 48, the commons at rodata.CommonsAddr, then the aligned trap
\* entries and import trampolines; no layout check fails when the trap
\* handler and the resume routine emit 1 to 16 bytes each and the init routine
\* together with the call of the start function emits 1 to 16 bytes
C15_Layout ==
    (RoutinesFit /\ module.initLen + StartCallSize <= FuncAlignment)
        => (pc # "panic" /\ FixedLayout)

\* the text is laid out with an init routine and a start call that fill the
\* 16 bytes to the entry
C15_Witness ==
    /\ pc = "laidOut"
    /\ module.startDefined
    /\ module.initLen + StartCallSize = FuncAlignment
    /\ module.trapLen = FuncAlignment
    /\ TextLen(code) > CommonsAddr

-----------------------------------------------------------------------------
(* C17 *)

\* the adjustment of the stack pointer in the text at a place: the immediate
\* of an add to the stack pointer, or nothing
AdjustmentAt(text, at) ==
    IF at + 4 <= Len(text) /\ text[at + 1] = 72 /\ text[at + 2] = 131
       /\ text[at + 3] = 196
    THEN text[at + 4] ELSE 0

Brs == {k \in 1..Len(code.branches) : code.branches[k].name = "br"}

\* the original statement: every br, also one to the end of the function or to
\* a block in final position, adjusts by the difference of the offsets
C17_BrAdjustsToTarget ==
    \A k \in Brs :
        LET b == code.branches[k]
        IN  AdjustmentAt(code.text, b.at) = b.stackOffset - b.target

\* C17: the adjustment of the stack pointer emitted before the jump of a br is
\* the stack offset at the br minus the stack offset recorded when the target
\* was pushed; a br to the end of the function or to a block in final position
\* releases the whole frame, the stack offset at the br, and returns
C17_BrAdjusts ==
    \A k \in Brs :
        LET b == code.branches[k]
        IN  IF b.functionEnd
            THEN /\ AdjustmentAt(code.text, b.at) = b.stackOffset
                 /\ code.text[b.at + (IF b.stackOffset = 0 THEN 1 ELSE 5)]
                        = ret[1]
            ELSE AdjustmentAt(code.text, b.at) = b.stackOffset - b.target

\* a br out of an inner block with an operand on the stack, and a br to the end
\* of the function with the local on the stack
C17_Witness ==
    /\ pc = "funcDone"
    /\ \E k \in Brs :
            /\ ~code.branches[k].functionEnd
            /\ code.branches[k].stackOffset > code.branches[k].target
            /\ code.branches[k].target > 0
    /\ \E k \in Brs :
            /\ code.branches[k].functionEnd
            /\ code.branches[k].stackOffset > 0
            /\ code.branches[k].target > 0

-----------------------------------------------------------------------------
(* C19 *)

\* C19: at most one operand is in the condition flags at a time, and where
\* such an operand is consumed (by setcc, cmov or jcc) no instruction that
\* changes the flags has been emitted since the comparison that made it
C19_FlagsKept ==
    /\ \A k \in 1..Len(code.flags.uses) :
            /\ code.flags.uses[k].made = code.flags.uses[k].epoch
            /\ code.flags.uses[k].live = 0
    /\ \A k \in 1..Len(code.folds) :
            ~(code.folds[k].a.Storage = "ConditionFlags"
              /\ code.folds[k].b.Storage = "ConditionFlags")

-----------------------------------------------------------------------------
(* C16 *)

\* the targets of the table recorded the same stack offset
SameOffsets(t) ==
    \A i, j \in 1..Len(t.targets) :
        t.targets[i].stackOffset = t.targets[j].stackOffset

\* the bytes of the read-only data from an address on
ROBytes(addr, n) == SubSeq(code.roData, addr + 1, addr + n)

\* C16: the table of a br_table whose targets all recorded the same stack
\* offset has entries of 4 bytes, the address of the target; if two targets
\* recorded different offsets every entry has 8 bytes, the address in the low
\* and the stack delta in the high 32 bits
C16_TableEntries ==
    pc = "funcDone" =>
        \A k \in 1..Len(code.tables) :
            LET t == code.tables[k]
            IN  \A i \in 1..Len(t.targets) :
                    /\ t.targets[i].addr > 0
                    /\ IF SameOffsets(t)
                       THEN ROBytes(t.roDataAddr + 4 * (i - 1), 4)
                                = LE32(t.targets[i].addr)
                       ELSE ROBytes(t.roDataAddr + 8 * (i - 1), 8)
                                = LE32(t.targets[i].addr)
                                  \o LE32(t.default
                                          - t.targets[i].stackOffset)

\* a function with a table of addresses and a table of packed entries with
\* two targets each
C16_Witness ==
    /\ pc = "funcDone"
    /\ \E k \in 1..Len(code.tables) :
            /\ SameOffsets(code.tables[k])
            /\ Len(code.tables[k].targets) = 2
    /\ \E k \in 1..Len(code.tables) :
            /\ ~SameOffsets(code.tables[k])
            /\ \E i \in 1..Len(code.tables[k].targets) :
                    code.tables[k].default
                        # code.tables[k].targets[i].stackOffset


-----------------------------------------------------------------------------
(* C18 *)

\* the immediate of an add to the stack pointer, sign-extended; no code adds 0
ImmOf(bytes) ==
    IF Len(bytes) = 0 THEN 0
    ELSE IF bytes[4] < 128 THEN bytes[4] ELSE bytes[4] - 256

\* a small number as a signed quantity of 64 bits, the low byte first
Signed64(n) ==
    LE32(n) \o (IF n < 0 THEN <<255, 255, 255, 255>> ELSE <<0, 0, 0, 0>>)

\* the sum of two quantities of as many bytes, the carry out dropped
RECURSIVE AddBytes(_, _, _)
AddBytes(a, b, carry) ==
    IF Len(a) = 0 THEN <<>>
    ELSE <<(a[1] + b[1] + carry) % 256>>
         \o AddBytes(Tail(a), Tail(b), (a[1] + b[1] + carry) \div 256)

\* what the code after the load of entry i adds to the stack pointer: the
\* common immediate, or the entry shifted right by 32 bits
SecondAdjustment(t, i) ==
    IF t.codeStackOffset < 0 THEN Signed64(ImmOf(t.second))
    ELSE IF /\ Len(t.second) = 3
            /\ t.second[2] = <<"shr64", t.second[1][2], "imm", 32>>
            /\ t.second[3] = <<"add64", 4, "reg", t.second[1][2]>>
         THEN ROBytes(t.roDataAddr + 8 * (i - 1) + 4, 4) \o <<0, 0, 0, 0>>
         ELSE <<>>

\* the adjustments on the path to target i sum to the offset at the br_table
\* less the offset the target recorded
PathAdjusts(t, i) ==
    AddBytes(Signed64(ImmOf(t.first)), SecondAdjustment(t, i), 0)
        = Signed64(t.stackOffset - t.targets[i].stackOffset)

\* C18: along the path of a br_table to the default target and to every
\* target of the table, the adjustments of the stack pointer sum, as a signed
\* quantity of 64 bits, to the stack offset at the br_table less the offset
\* the target recorded, also for a target whose offset is larger than the
\* default target's
C18_BrTableAdjusts ==
    pc = "funcDone" =>
        \A k \in 1..Len(code.tables) :
            LET t == code.tables[k]
            IN  /\ Signed64(ImmOf(t.first))
                        = Signed64(t.stackOffset - t.default)
                /\ \A i \in 1..Len(t.targets) : PathAdjusts(t, i)

\* the sums are right for the tables none of whose targets recorded a larger
\* offset than the default target
C18_AdjustsUpToDefault ==
    pc = "funcDone" =>
        \A k \in 1..Len(code.tables) :
            LET t == code.tables[k]
            IN  /\ Signed64(ImmOf(t.first))
                        = Signed64(t.stackOffset - t.default)
                /\ \A i \in 1..Len(t.targets) :
                        t.targets[i].stackOffset <= t.default
                            => PathAdjusts(t, i)

-----------------------------------------------------------------------------
(* C20 *)

\* C20: in every state of the coder each variable's refCount is the number of
\* the live operands whose storage is Var and that are the variable, after
\* opPushLiveOperand, popLiveOperand, opStealReg and opTryStealVarReg as
\* between the children of a function; no refCount is negative
C20_RefCounts ==
    /\ code.refs = <<>>
    /\ RefCountsAgree(code)
    /\ \A i \in 1..Len(code.vars) : code.vars[i].refCount >= 0

\* the first count that is not the number of the live operands is left by
\* opStealReg or opTryStealVarReg; between the children of a function the
\* counts differ from the numbers only after that
C20_FirstAfterSteal ==
    /\ code.refs # <<>> =>
            code.refs[1].after \in {"opStealReg", "opTryStealVarReg"}
    /\ code.refs = <<>> => RefCountsAgree(code)

-----------------------------------------------------------------------------
(* set_local and the live references to the variable's old value            *)

\* C21: set_local of a variable with live references turns every one of them
\* into a register or stack operand, the count reaching zero, for every
\* type-correct body: it never gives up with references left, also when a call
\* made the referring operand immutable
C21_SetLocalInvalidates ==
    code.panic # "could not find all variable references"

-----------------------------------------------------------------------------
(* The order of the live operands on the machine stack                      *)

\* C22: no live operand is pushed while an operand after it in the list is
\* on the stack already, so the stack operands pop in reverse list order
C22_StackOrder ==
    code.order = <<>>

-----------------------------------------------------------------------------
(* Dead ends: what a block and an if tell their parent                      *)

\* the blocks and the ifs that have ended
Ends(name) == {i \in 1..Len(code.ends) : code.ends[i].name = name}

\* after a dead end no later child of the block is lowered
NoneAfterDeadEnd ==
    \A i \in Ends("block") :
        code.ends[i].deadAt > 0 => code.ends[i].lowered = code.ends[i].deadAt

-----------------------------------------------------------------------------
(* The sites of a label and its address                                     *)

\* the site of bind i that is at place k holds the displacement
HoldsDisplacement(i, k) ==
    code.binds[i].held[k] = code.binds[i].address - code.binds[i].sites[k]

\* C24: when a label is bound every site recorded on it is an address
\* strictly less than the label's address, no site having been recorded once
\* the label had its address, and afterwards every site holds the label's
\* address minus the site's
C24_SitesBelow ==
    \A i \in 1..Len(code.binds) :
        \A k \in 1..Len(code.binds[i].sites) :
            /\ code.binds[i].sites[k] < code.binds[i].address
            /\ HoldsDisplacement(i, k)

\* C24 as amended: the site is the address after the branch instruction and
\* is at most the label's address; the four bytes patched lie below it
C24_SitesNotAbove ==
    \A i \in 1..Len(code.binds) :
        \A k \in 1..Len(code.binds[i].sites) :
            /\ code.binds[i].sites[k] <= code.binds[i].address
            /\ code.binds[i].sites[k] - 4 > 0
            /\ HoldsDisplacement(i, k)

\* a label bound right after the branch to it: the site is the label's
\* address and holds the displacement 0
C24_Witness ==
    /\ pc = "funcDone"
    /\ \E i \in 1..Len(code.binds) :
        \E k \in 1..Len(code.binds[i].sites) :
            /\ code.binds[i].sites[k] = code.binds[i].address
            /\ code.binds[i].held[k] = 0

-----------------------------------------------------------------------------
(* The stack depth at the end of a block                                    *)

\* C25: at the end label of a block that a branch site is recorded on, the
\* stack offset of the coder is the offset recorded for the target, which is
\* the depth every br and br_if to the label leaves on the machine stack: the
\* paths that reach the label agree with the coder
C25_DepthAtLabel ==
    \A i \in Ends("block") :
        (code.ends[i].bound /\ code.ends[i].sites > 0)
            => code.ends[i].stackOffset = code.ends[i].offset

-----------------------------------------------------------------------------
(* The slots of the locals                                                  *)

\* C26: whenever opInitLocalsUntil pushes local number i, the stack offset
\* before the push is i words, so that the local lives at the slot that
\* effectiveVarStackOffset computes; this holds as well when call_indirect
\* has saved its index operand
C26_LocalsAtSlot ==
    \A i \in 1..Len(code.locals) :
        code.locals[i].stackOffset = code.locals[i].local * WordSize

-----------------------------------------------------------------------------
(* The values of the folds                                                  *)

\* the integers of the operand width, two's complement, as 0..(Modulus - 1)
ValueBits == 3
Modulus == 2 ^ ValueBits
Words == 0..(Modulus - 1)
Word(v) == v % Modulus
Signed(w) == IF w >= Modulus \div 2 THEN w - Modulus ELSE w
Abs(v) == IF v < 0 THEN -v ELSE v

RECURSIVE Bitwise(_, _, _, _)
Bitwise(op, x, k, bits) ==
    IF bits = 0 THEN 0
    ELSE LET bx == x % 2
             bk == k % 2
             b == IF op = "or" THEN (IF bx + bk > 0 THEN 1 ELSE 0)
                  ELSE (bx + bk) % 2
         IN  b + 2 * Bitwise(op, x \div 2, k \div 2, bits - 1)

\* the value of the operation on the words x and k, k # 0 for a division;
\* the signed division truncates towards zero
Apply(op, x, k) ==
    CASE op = "add" -> Word(x + k)
      [] op = "sub" -> Word(x - k)
      [] op = "mul" -> Word(x * k)
      [] op \in {"or", "xor"} -> Bitwise(op, x, k, ValueBits)
      [] op = "div_u" -> x \div k
      [] op = "div_s" ->
            LET q == Abs(Signed(x)) \div Abs(Signed(k))
            IN  Word(IF (Signed(x) < 0) = (Signed(k) < 0) THEN q ELSE -q)

\* the operands of a call of exprBinaryOp after the swap of code.go:647-652
Swapped(h) ==
    /\ h.a.Storage = "Imm"
    /\ h.b.Storage # "Imm"
    /\ h.op \in {"add", "and", "or", "xor"}
Left(h) == IF Swapped(h) THEN h.b ELSE h.a
Right(h) == IF Swapped(h) THEN h.a ELSE h.b

\* the values the left operand can hold: its own when it is an immediate
LeftValues(h) ==
    IF Left(h).Storage = "Imm" THEN {Word(Left(h).Value)} ELSE Words

\* the operand of the fold denotes the word v when the left operand holds x
Denotes(h, x, v) ==
    IF h.result.Storage = "Imm" THEN Word(h.result.Value) = v
    ELSE h.result = Left(h) /\ x = v

\* C27: every fold of exprBinaryOp preserves the value: the operand the fold
\* yields denotes, for every word x of the left operand and the constant k
\* of the right one, the value of the operation on x and k in two's
\* complement arithmetic
C27_FoldsPreserve ==
    \A i \in 1..Len(code.folds) :
        LET h == code.folds[i]
        IN  ~h.called =>
                \A x \in LeftValues(h) :
                    Denotes(h, x, Apply(h.op, x, Word(Right(h).Value)))

-----------------------------------------------------------------------------
(* The value of an outstanding get_local                                    *)

\* C28: the operand of a get_local denotes, when it is consumed, the value
\* the variable held when the get_local was lowered, also when a set_local
\* of the variable is lowered in between: the table index of call_indirect
\* that is read as the variable has not been assigned since it was lowered
C28_IndexKeepsValue ==
    \A i \in 1..Len(code.indexes) :
        LET h == code.indexes[i]
        IN  h.index.Storage = "Var" =>
                \A k \in 1..Len(h.since) : h.since[k] # h.index.Index

-----------------------------------------------------------------------------
(* The state at a call instruction                                          *)

\* no live operand is in a register, no variable is cached in a register or
\* dirty, and no register of either pool is allocated
CallState(h) ==
    /\ \A i \in 1..Len(h.liveOperands) :
            h.liveOperands[i].ref.Storage # "TempReg"
    /\ \A i \in 1..Len(h.vars) :
            /\ h.vars[i].cache.Storage # "VarReg"
            /\ ~h.vars[i].dirty
    /\ h.regsInt = {}
    /\ h.regsFloat = {}

\* C29: when the instruction of a call or a call_indirect is emitted, no live
\* operand has TempReg storage and no variable is cached in a register or
\* dirty, so that both register pools are free, and the allocation of the
\* signature register of call_indirect never fails
C29_CallState ==
    /\ \A i \in 1..Len(code.calls) : CallState(code.calls[i])
    /\ code.panic # "impossible situation"

-----------------------------------------------------------------------------
(* The caches of the variables                                              *)

VarIndexes(h) == 1..Len(h.vars)

\* the cache of a variable is nothing, an immediate or a register that
\* carries the index of the variable
CacheStorage(h) ==
    \A i \in VarIndexes(h) :
        LET cache == h.vars[i].cache
        IN  /\ cache.Storage \in {"Nowhere", "Imm", "VarReg"}
            /\ cache.Storage = "VarReg" => cache.Index = i - 1

DirtyCached(h) ==
    \A i \in VarIndexes(h) :
        h.vars[i].dirty => h.vars[i].cache.Storage # "Nowhere"

\* the live operands in a register
LiveTempRegs(h) ==
    {k \in 1..Len(h.liveOperands) : h.liveOperands[k].ref.Storage = "TempReg"}

\* the register of a cache is allocated, is the cache of no other variable
\* and is the register of no live TempReg operand
CacheRegs(h) ==
    \A i \in VarIndexes(h) :
        LET cache == h.vars[i].cache
        IN  cache.Storage = "VarReg" =>
                /\ cache.Reg \in h.regsInt
                /\ \A j \in VarIndexes(h) \ {i} :
                        h.vars[j].cache.Storage = "VarReg"
                            => h.vars[j].cache.Reg # cache.Reg
                /\ \A k \in LiveTempRegs(h) :
                        h.liveOperands[k].ref.Reg # cache.Reg

\* the locals that are not pushed yet are dirty and cached
UnpushedLocals(h) ==
    \A i \in VarIndexes(h) :
        i > NumParams(h) + h.pushedLocals
            => /\ h.vars[i].dirty
               /\ h.vars[i].cache.Storage # "Nowhere"

VarCaches(h) ==
    /\ CacheStorage(h)
    /\ DirtyCached(h)
    /\ CacheRegs(h)
    /\ UnpushedLocals(h)

====
